---- MODULE Spec2Model ----
(***************************************************************************)
(* Verification model of openclaw-leuko: the L2 cognitive check engine,    *)
(* its escalation tracker and the status document it shares with the L1    *)
(* daemon.                                                                 *)
(*                                                                         *)
(* Nine specifications share this module:                                  *)
(*   Spec      the status path under concurrent use: writeCognitiveResults *)
(*             step by step, the L1 daemon's writeStatus, and readers      *)
(*   SpecEsc   a sequence of persisted orchestrator runs (handleRefresh)   *)
(*   SpecRun   one orchestrator run, check by check (runAllChecks)         *)
(*   SpecCheck the LLM-backed checks on bounded inputs                     *)
(*   SpecLlm   one generate call of the LLM client, with time              *)
(*   SpecSeq   one orchestrator run, suspension point by suspension point  *)
(*   SpecFn    the status reader and the deterministic checks as functions *)
(*             of bounded inputs                                           *)
(*   SpecTicks persisted runs with writes of the L1 daemon between them,   *)
(*             under weak fairness of the runs (SpecEscFair: without them) *)
(*   SpecOverlap orchestrator runs that may overlap                        *)
(***************************************************************************)
EXTENDS Integers, Sequences, FiniteSets, TLC

VARIABLES
    \* ---- the status path (Spec, SpecEsc)
    file,          \* content at statusPath: [form, obj]
    dirExists,     \* whether dirname(statusPath) exists
    tmpFile,       \* content at statusPath + ".l2tmp"
    \* ---- L1 daemon process (Spec)
    l1pc,          \* "idle" | "opened" (inside writeFileSync, after open/truncate)
    l1gen,         \* number of daemon ticks started so far
    l1fdStale,     \* the descriptor L1 holds names an inode renamed away
    \* ---- writeCognitiveResults invocation (Spec)
    w_pc,          \* "idle" | "read" | "tmp" | "rename" | "done"
    existing,      \* the writer's local `existing`
    payload,       \* the writer's argument
    ret,           \* the writer's return value
    nwrites,       \* number of writer invocations started
    ioFailed,      \* history: the I/O steps of this invocation that threw
    \* ---- readers of the status path (Spec)
    lastRead,      \* raw content the most recent readFileSync returned
    \* ---- history variables (Spec)
    l1done,        \* L1 region the path last received whole: from the last L1
                   \* write that completed, or from a later rename over it
    l1SinceRead,   \* an L1 write completed since the writer's read
    readContent,   \* raw content the writer's read returned
    \* ---- persisted runs (SpecEsc)
    clock,         \* number of runs started; stands for the run's timestamps
    lastResults,   \* results the latest run handed to the writer
    streak,        \* history: per check name, consecutive most-recent critical runs
    streakStart,   \* history: per check name, timestamp of the result that began it
    allPersisted,  \* history: every run so far was persisted by the writer
    reply,         \* what the latest refresh command replied (option)
    \* ---- one orchestrator run (SpecRun)
    enabled,       \* config.checks.<x>.enabled, as the set of enabled checks
    pc,            \* "idle" | 1..6 (about to reach CK-0n) | "track" | "done"
    ctx,           \* CheckRunContext: [results, totalTokens, checksFailed]
    status,        \* the status read at the start of the run (option)
    invoked,       \* history: per check, how often its function was called
    threw,         \* history: the checks that threw in this run
    out,           \* what runAllChecks returned: [results, meta] (option)
    \* ---- one LLM-backed check (SpecCheck)
    chkInput,      \* the subject file and the LLM's answer
    chkResult,     \* what the check returned (option)
    \* ---- one generate call of the LLM client (SpecLlm)
    genPc,         \* "idle" | "primary" | "fallback" (awaiting that request) | "done"
    genArgs,       \* the arguments: [systemPrompt, userPrompt, timeoutMs]
    now,           \* Date.now() - startMs
    idle,          \* time since the pending request's socket last saw activity
    requests,      \* history: the provider requests sent, in order
    prim,          \* the local `prim` (option)
    fb,            \* the local `fb` (option)
    answeredBy,    \* history: the provider whose response carried content (option)
    primStatus,    \* history: HTTP status of the primary's response (option)
    response,      \* what generate resolved with (option)
    late,          \* history: events delivered to requests whose promise had settled
    \* ---- one orchestrator run, suspension point by suspension point (SpecSeq)
    phase,         \* where the check in flight stands: "none" | "input" | "llm"
    inflight,      \* history: the checks whose function was called and has not settled
    started,       \* history: the checks in the order their functions were called
    llmCalls,      \* history: per check, how often it called llm.generate
    recsInput,     \* history: currentResults as CK-06 received it (option)
    \* ---- one call of a function on bounded inputs (SpecFn)
    fnIn,          \* the function called and its arguments
    fnOut,         \* what it returned (option)
    \* ---- orchestrator runs that may overlap (SpecOverlap)
    ovStatus,      \* per run, the local `status` of runAllChecks once read (option)
    ovWrote        \* history: the runs that reached the writer, in that order

fileVars == <<file, dirExists, tmpFile>>
l1Vars == <<l1pc, l1gen, l1fdStale>>
wVars == <<w_pc, existing, payload, ret, nwrites, ioFailed>>
histVars == <<lastRead, l1done, l1SinceRead, readContent>>
escVars == <<clock, lastResults, streak, streakStart, allPersisted, reply>>
runVars == <<enabled, pc, ctx, status, invoked, threw, out>>
chkVars == <<chkInput, chkResult>>
llmVars == <<genPc, genArgs, now, idle, requests, prim, fb, answeredBy, primStatus, response,
             late>>
seqVars == <<phase, inflight, started, llmCalls, recsInput>>
fnVars == <<fnIn, fnOut>>
ovVars == <<ovStatus, ovWrote>>
clientVars == <<llmVars, seqVars, fnVars, ovVars>>
vars == <<fileVars, l1Vars, wVars, histVars, escVars, runVars, chkVars, clientVars>>

(***************************************************************************)
(* Bounds of the model.                                                    *)
(***************************************************************************)
MaxTicks == 2      \* L1 daemon ticks in a behaviour
MaxWrites == 2     \* writeCognitiveResults invocations in a behaviour

(***************************************************************************)
(* Optional values: undefined / absent key is <<>>, a value v is <<v>>.    *)
(***************************************************************************)
None == <<>>
Some(v) == <<v>>
OrElse(o, d) == IF o = None THEN d ELSE o[1]

(***************************************************************************)
(* Severity.                                                               *)
(***************************************************************************)
Severity == {"ok", "warn", "critical"}

\* status-reader parseSeverity, same rule.
parseSeverity(v) == IF v \in Severity THEN v ELSE "ok"

\* worstSeverity taking its first argument.
firstSeverity(severities) == severities[1]

\* The first argument whatever the others, ok without arguments.
worstSeverityFirstWins(severities) ==
    IF severities = <<>> THEN "ok" ELSE severities[1]

\* check-utils worstSeverity(...severities), on the sequence of its arguments.
worstSeverity(severities) ==
    IF \E i \in DOMAIN severities : severities[i] = "critical" THEN "critical"
    ELSE IF \E i \in DOMAIN severities : severities[i] = "warn" THEN "warn"
    ELSE "ok"

\* thread-health.ts local worstSeverity(a, b), by the order table.
order(s) == CASE s = "ok" -> 0 [] s = "warn" -> 1 [] s = "critical" -> 2
worstSeverity2(a, b) == IF order(a) >= order(b) THEN a ELSE b

(***************************************************************************)
(* The status document.                                                    *)
(***************************************************************************)
L1Keys == {"daemon_checks", "auto_heal_history", "last_check", "overall_severity"}
L2Keys == {"cognitive_checks", "cognitive_meta", "sitrep_collectors"}
Keys == L1Keys \cup L2Keys

\* {} : no key present.
EmptyObj == [k \in Keys |-> None]

\* The content of a path.  form: "absent" (no file), "object" (the text of a
\* JSON object, obj), "nonobject" (valid JSON, not an object), "malformed"
\* (unparsable text; obj is the object whose text it garbles), "partial"
\* (the unparsable text of a write in progress).
AbsentFile == [form |-> "absent", obj |-> EmptyObj]
PartialFile == [form |-> "partial", obj |-> EmptyObj]
NonObjectFile == [form |-> "nonobject", obj |-> EmptyObj]
ObjectFile(o) == [form |-> "object", obj |-> o]
MalformedFile(o) == [form |-> "malformed", obj |-> o]
\* What a read that threw yields: no content.
UnreadFile == [form |-> "unread", obj |-> EmptyObj]

L1Region(o) == [k \in L1Keys |-> o[k]]

\* The L1 region a parse of the content yields: that of the object, or none.
PathL1(f) == IF f.form = "object" THEN L1Region(f.obj) ELSE L1Region(EmptyObj)

\* daemon runDaemon: the StatusFile of tick g.  daemon_checks, last_check and
\* overall_severity are those of the tick; cognitive_checks and
\* auto_heal_history are always written as [].
runDaemon(g) ==
    [k \in Keys |->
        CASE k = "daemon_checks" -> Some(g)
          [] k = "last_check" -> Some(g)
          [] k = "overall_severity" -> Some(g)
          [] k = "auto_heal_history" -> Some(0)
          [] k = "cognitive_checks" -> Some(<<>>)
          [] OTHER -> None]

(***************************************************************************)
(* status-writer.ts writeCognitiveResults, its pure parts.                 *)
(***************************************************************************)
\* lines 33-44: existsSync, readFileSync, JSON.parse, isRecord; anything
\* that is not the text of an object leaves existing = {}.
ReadExisting(f) == IF f.form = "object" THEN f.obj ELSE EmptyObj

\* A merge that forgets the spread of `existing`.
MergeNoSpread(ex, p) ==
    [k \in Keys |->
        CASE k = "cognitive_checks" -> Some(p.cognitive_checks)
          [] k = "cognitive_meta" -> Some(p.cognitive_meta)
          [] k = "sitrep_collectors" -> p.sitrep_collectors
          [] OTHER -> None]

\* lines 47-55: { ...existing, cognitive_checks, cognitive_meta } and
\* sitrep_collectors when the payload has it.
Merge(ex, p) ==
    [k \in Keys |->
        CASE k = "cognitive_checks" -> Some(p.cognitive_checks)
          [] k = "cognitive_meta" -> Some(p.cognitive_meta)
          [] k = "sitrep_collectors" ->
                IF p.sitrep_collectors # None THEN p.sitrep_collectors ELSE ex[k]
          [] OTHER -> ex[k]]

\* Payloads the writer is called with in Spec: the n-th invocation's results
\* and meta, with or without sitrep_collectors.
WritePayloads(n) ==
    { [cognitive_checks |-> <<n>>, cognitive_meta |-> n, sitrep_collectors |-> sc] :
        sc \in {None, Some(n)} }

NoPayload == [cognitive_checks |-> <<>>, cognitive_meta |-> 0, sitrep_collectors |-> None]

(***************************************************************************)
(* Spec: the status path under concurrent use.                             *)
(***************************************************************************)
\* Contents the status path can hold when the plugin starts: nothing, the
\* daemon's first document, a garbled copy of it, or JSON that is no object.
InitFiles ==
    {AbsentFile, ObjectFile(runDaemon(1)), MalformedFile(runDaemon(1)), NonObjectFile}

ParkEsc ==
    /\ clock = 0
    /\ lastResults = <<>>
    /\ streak = <<>>
    /\ streakStart = <<>>
    /\ allPersisted = TRUE
    /\ reply = None

ParkRunState ==
    /\ pc = "idle"
    /\ ctx = <<>>
    /\ status = None
    /\ invoked = <<>>
    /\ threw = {}
    /\ out = None

ParkRun == enabled = {} /\ ParkRunState

ParkChk ==
    /\ chkInput = <<>>
    /\ chkResult = None

ParkLlmState ==
    /\ genPc = "idle"
    /\ now = 0
    /\ idle = 0
    /\ requests = <<>>
    /\ prim = None
    /\ fb = None
    /\ answeredBy = None
    /\ primStatus = None
    /\ response = None
    /\ late = <<>>

ParkLlm == genArgs = <<>> /\ ParkLlmState

ParkSeq ==
    /\ phase = "none"
    /\ inflight = {}
    /\ started = <<>>
    /\ llmCalls = <<>>
    /\ recsInput = None

ParkFn == fnIn = <<>> /\ fnOut = None

ParkOv == ovStatus = <<>> /\ ovWrote = <<>>

ParkClient == ParkLlm /\ ParkSeq /\ ParkFn /\ ParkOv

ParkW ==
    /\ w_pc = "idle"
    /\ existing = EmptyObj
    /\ payload = NoPayload
    /\ ret = FALSE
    /\ nwrites = 0
    /\ ioFailed = {}

ParkL1 ==
    /\ l1pc = "idle"
    /\ l1gen = 0
    /\ l1fdStale = FALSE

ParkHist ==
    /\ lastRead = AbsentFile
    /\ l1done = L1Region(EmptyObj)
    /\ l1SinceRead = FALSE
    /\ readContent = AbsentFile

Init ==
    /\ dirExists \in BOOLEAN
    /\ file \in IF dirExists THEN InitFiles ELSE {AbsentFile}
    /\ tmpFile = AbsentFile
    /\ l1pc = "idle"
    /\ l1gen = IF file.form \in {"object", "malformed"} THEN 1 ELSE 0
    /\ l1fdStale = FALSE
    /\ ParkW
    /\ lastRead = file
    /\ l1done = PathL1(file)
    /\ l1SinceRead = FALSE
    /\ readContent = file
    /\ ParkEsc /\ ParkRun /\ ParkChk /\ ParkClient

\* daemon writeStatus, lines 284-286, first half: mkdirSync when the directory
\* is missing, then writeFileSync opens the path with flag "w", which creates
\* or truncates the file in place.
L1Open ==
    /\ l1pc = "idle"
    /\ l1gen < MaxTicks
    /\ l1gen' = l1gen + 1
    /\ l1pc' = "opened"
    /\ l1fdStale' = FALSE
    /\ dirExists' = TRUE
    /\ file' = PartialFile
    /\ UNCHANGED <<clientVars, tmpFile, wVars, histVars, escVars, runVars, chkVars>>

\* daemon writeStatus, second half: writeFileSync writes the text through the
\* descriptor it opened and closes it.  When the path was renamed over in the
\* meantime the text lands in the unlinked inode, not at the path.
L1Write ==
    /\ l1pc = "opened"
    /\ l1pc' = "idle"
    /\ l1fdStale' = FALSE
    /\ file' = IF l1fdStale THEN file ELSE ObjectFile(runDaemon(l1gen))
    /\ l1done' = IF l1fdStale THEN l1done ELSE L1Region(runDaemon(l1gen))
    /\ l1SinceRead' = (w_pc \in {"tmp", "rename"})
    /\ UNCHANGED <<clientVars, dirExists, tmpFile, l1gen, wVars, lastRead, readContent,
                   escVars, runVars, chkVars>>

\* writeCognitiveResults is called with a payload.
WCall ==
    /\ w_pc \in {"idle", "done"}
    /\ nwrites < MaxWrites
    /\ nwrites' = nwrites + 1
    /\ \E p \in WritePayloads(nwrites + 1) : payload' = p
    /\ w_pc' = "read"
    /\ existing' = EmptyObj
    /\ ret' = FALSE
    /\ ioFailed' = {}
    /\ UNCHANGED <<clientVars, fileVars, l1Vars, histVars, escVars, runVars, chkVars>>

\* lines 33-63: read and parse the existing document, build `merged`, and
\* return false when the directory is missing.  readFileSync on a path that
\* exists may throw (the file is not readable by the process); the inner
\* catch of lines 40-42 takes that like a parse failure.
WRead ==
    /\ w_pc = "read"
    /\ \E okIo \in IF file.form = "absent" THEN {TRUE} ELSE BOOLEAN :
          /\ existing' = IF okIo THEN ReadExisting(file) ELSE EmptyObj
          /\ readContent' = IF okIo THEN file ELSE UnreadFile
          /\ ioFailed' = IF okIo THEN ioFailed ELSE ioFailed \cup {"read"}
    /\ l1SinceRead' = FALSE
    /\ IF dirExists
       THEN w_pc' = "tmp" /\ ret' = ret
       ELSE w_pc' = "done" /\ ret' = FALSE
    /\ UNCHANGED <<clientVars, fileVars, l1Vars, payload, nwrites, lastRead, l1done,
                   escVars, runVars, chkVars>>

\* A writer that writes the merged text to the status path itself: a write
\* that fails half way leaves the path truncated.
WWriteInPlace ==
    /\ w_pc = "tmp"
    /\ \E okIo \in BOOLEAN :
        IF okIo
        THEN /\ tmpFile' = ObjectFile(Merge(existing, payload))
             /\ file' = file
             /\ w_pc' = "rename"
             /\ ret' = ret
             /\ ioFailed' = ioFailed
        ELSE /\ tmpFile' = tmpFile
             /\ file' = PartialFile
             /\ w_pc' = "done"
             /\ ret' = FALSE
             /\ ioFailed' = ioFailed \cup {"tmp"}
    /\ UNCHANGED <<clientVars, dirExists, l1Vars, existing, payload, nwrites, histVars,
                   escVars, runVars, chkVars>>

\* line 65: writeFileSync(tmpPath, JSON.stringify(merged)); an I/O error is
\* caught at line 70 and the writer returns false.
WWriteTmp ==
    /\ w_pc = "tmp"
    /\ \E okIo \in BOOLEAN :
        IF okIo
        THEN /\ tmpFile' = ObjectFile(Merge(existing, payload))
             /\ w_pc' = "rename"
             /\ ret' = ret
             /\ ioFailed' = ioFailed
        ELSE /\ tmpFile' = tmpFile
             /\ w_pc' = "done"
             /\ ret' = FALSE
             /\ ioFailed' = ioFailed \cup {"tmp"}
    /\ UNCHANGED <<clientVars, file, dirExists, l1Vars, existing, payload, nwrites, histVars,
                   escVars, runVars, chkVars>>

\* line 66: renameSync(tmpPath, statusPath) replaces the path's inode in one
\* step, then the writer returns true; a failing rename returns false.
WRename ==
    /\ w_pc = "rename"
    /\ w_pc' = "done"
    /\ \E okIo \in BOOLEAN :
        IF okIo
        THEN /\ file' = tmpFile
             /\ tmpFile' = AbsentFile
             /\ l1fdStale' = (l1pc = "opened")
             /\ l1done' = PathL1(tmpFile)
             /\ ret' = TRUE
             /\ ioFailed' = ioFailed
        ELSE /\ UNCHANGED <<file, tmpFile, l1fdStale, l1done>>
             /\ ret' = FALSE
             /\ ioFailed' = ioFailed \cup {"rename"}
    /\ UNCHANGED <<clientVars, dirExists, l1pc, l1gen, existing, payload, nwrites, lastRead,
                   l1SinceRead, readContent, escVars, runVars, chkVars>>

\* A reader (tool, command, hook, readStatusFile of a run) reads the path:
\* status-reader readStatusFile lines 234-238.
ReaderRead ==
    /\ lastRead' = file
    /\ lastRead' # lastRead
    /\ UNCHANGED <<clientVars, fileVars, l1Vars, wVars, l1done, l1SinceRead, readContent,
                   escVars, runVars, chkVars>>

Next ==
    \/ L1Open
    \/ L1Write
    \/ WCall
    \/ WRead
    \/ WWriteTmp
    \/ WRename
    \/ ReaderRead

Spec == Init /\ [][Next]_vars

(***************************************************************************)
(* Claims about the status path (checked under Spec).                      *)
(***************************************************************************)
\* The step in which writeCognitiveResults finishes its rename attempt.
WRenameStep == w_pc = "rename" /\ w_pc' = "done"

\* C4 (as stated): a write by the status writer never drops or changes the
\* L1-owned region, whatever the prior content of the status document:
\* across the writer's rename the path keeps daemon_checks, auto_heal_history,
\* last_check and overall_severity as they were.
C4_WriteKeepsL1Region ==
    [][WRenameStep => L1Region(file'.obj) = L1Region(file.obj)]_vars

\* C4 (amended): the document the writer persists holds the L1-owned region
\* exactly as it was in the content the writer read when that content was the
\* text of a JSON object, and holds no L1-owned key when that content was
\* absent, malformed, partial or not an object; a failed write leaves the
\* path as it was.
C4_WriteKeepsReadL1Region ==
    [][WRenameStep =>
        IF ret'
        THEN /\ file'.form = "object"
             /\ L1Region(file'.obj) =
                    IF readContent.form = "object"
                    THEN L1Region(readContent.obj)
                    ELSE L1Region(EmptyObj)
        ELSE file' = file]_vars

\* C4 witness: the writer has returned true after reading an object that
\* held an L1 region, and the path holds that region next to the new
\* cognitive fields.
C4_Witness ==
    /\ w_pc = "done"
    /\ ret
    /\ readContent.form = "object"
    /\ readContent.obj["daemon_checks"] # None
    /\ file.form = "object"
    /\ file.obj["daemon_checks"] = readContent.obj["daemon_checks"]
    /\ file.obj["cognitive_checks"] = Some(payload.cognitive_checks)

\* C5: a reader of the status path never observes a partially-written
\* document, under any interleaving of reads with the writes of the status
\* writer and of the L1 daemon.
C5_ReadersSeeWholeDocuments == lastRead.form # "partial"

\* C6: an L1 write that completed before the writer's read is carried
\* unchanged into the document the writer persists; the writer replaces L1
\* data with other L1 data only when an L1 write landed between the writer's
\* read and its rename.
C6_CompletedL1WriteCarried ==
    [][(WRenameStep /\ ret' /\ ~l1SinceRead) => PathL1(file') = l1done]_vars

(***************************************************************************)
(* SpecEsc: a sequence of orchestrator runs, each handing its results to   *)
(* the status writer before the next one starts (handleRefresh).           *)
(***************************************************************************)
MaxRuns == 4       \* orchestrator runs in a behaviour
MaxEnabled == 2    \* checks enabled in the configuration of a behaviour

\* The checks in the order runAllChecks reaches them, by their CHECK_NAME.
CheckOrder ==
    << "cognitive:goal_quality", "cognitive:thread_health",
       "cognitive:pipeline_correlation", "cognitive:anomaly_detection",
       "cognitive:bootstrap_integrity", "cognitive:recommendations" >>
CheckNames == {CheckOrder[i] : i \in DOMAIN CheckOrder}

\* What the call of a check function can do: return a result of one of the
\* severities, or throw.
Outcomes == Severity \cup {"throw"}

\* The result a check function returns: the escalation fields are not set by
\* the checks.
FreshResult(name, sev, ts, tokens) ==
    [check_name |-> name, severity |-> sev, timestamp |-> ts,
     tokens_used |-> tokens, consecutive_critical_count |-> None,
     first_critical_at |-> None, escalation_needed |-> None]

\* const ctx = { results: [], totalTokens: 0, checksFailed: 0 }
NewCtx == [results |-> <<>>, totalTokens |-> 0, checksFailed |-> 0]

\* runCheck with the catch clause counting nothing.
runCheckUncounted(c, fnOutcome) ==
    IF fnOutcome # None
    THEN [c EXCEPT !.results = Append(@, fnOutcome[1]),
                   !.totalTokens = @ + OrElse(fnOutcome[1].tokens_used, 0)]
    ELSE c

\* runCheck with the result put at the head of the list.
runCheckPrepend(c, fnOutcome) ==
    IF fnOutcome # None
    THEN [c EXCEPT !.results = <<fnOutcome[1]>> \o @,
                   !.totalTokens = @ + OrElse(fnOutcome[1].tokens_used, 0)]
    ELSE [c EXCEPT !.checksFailed = @ + 1]

\* runCheck(ctx, label, fn, logger); fnOutcome is None when fn() throws and
\* Some(result) when it returns.
runCheck(c, fnOutcome) ==
    IF fnOutcome # None
    THEN [c EXCEPT !.results = Append(@, fnOutcome[1]),
                   !.totalTokens = @ + OrElse(fnOutcome[1].tokens_used, 0)]
    ELSE [c EXCEPT !.checksFailed = @ + 1]

\* status-reader parseCognitiveCheck, on the fields the orchestrator uses.
parseCognitiveCheck(raw) ==
    [check_name |-> raw.check_name,
     severity |-> parseSeverity(raw.severity),
     timestamp |-> raw.timestamp,
     tokens_used |-> raw.tokens_used,
     consecutive_critical_count |-> raw.consecutive_critical_count,
     first_critical_at |-> raw.first_critical_at,
     escalation_needed |-> raw.escalation_needed]

\* readStatusFile: null unless the content parses as an object;
\* cognitive_checks is undefined unless the key holds an array.
readStatusFile(f) ==
    IF f.form # "object" THEN None
    ELSE Some([daemon_checks |-> f.obj["daemon_checks"],
               cognitive_checks |->
                   IF f.obj["cognitive_checks"] = None THEN None
                   ELSE LET a == f.obj["cognitive_checks"][1]
                        IN Some([i \in DOMAIN a |-> parseCognitiveCheck(a[i])])])

\* Array.prototype.find by check_name: the first match, or undefined.
FindCheck(checks, name) ==
    IF \E i \in DOMAIN checks : checks[i].check_name = name
    THEN LET i == CHOOSE i \in DOMAIN checks :
                      /\ checks[i].check_name = name
                      /\ \A j \in 1..(i - 1) : checks[j].check_name # name
         IN Some(checks[i])
    ELSE None

EscalationThreshold == 3

\* The loop body counting a critical result on top of nothing: the count of
\* the previous entry is not read.
trackResultFromZero(result, prev) ==
    IF result.severity = "critical"
    THEN [result EXCEPT
             !.consecutive_critical_count = Some(1),
             !.first_critical_at =
                 IF prev # None /\ prev[1].first_critical_at # None
                 THEN prev[1].first_critical_at
                 ELSE Some(result.timestamp)]
    ELSE [result EXCEPT !.consecutive_critical_count = Some(0)]

\* The body of trackConsecutiveCriticals' loop for one result.
trackResult(result, prev) ==
    IF result.severity = "critical"
    THEN LET prevCount == IF prev = None THEN 0
                          ELSE OrElse(prev[1].consecutive_critical_count, 0)
             n == prevCount + 1
         IN [result EXCEPT
                !.consecutive_critical_count = Some(n),
                !.first_critical_at =
                    IF prev # None /\ prev[1].first_critical_at # None
                    THEN prev[1].first_critical_at
                    ELSE Some(result.timestamp),
                !.escalation_needed =
                    IF n >= EscalationThreshold THEN Some(TRUE) ELSE @]
    ELSE [result EXCEPT !.consecutive_critical_count = Some(0)]

\* trackConsecutiveCriticals(results, status): returns at once when there is
\* no status or the status has no cognitive_checks.
trackConsecutiveCriticals(results, st) ==
    IF st = None \/ st[1].cognitive_checks = None THEN results
    ELSE [i \in DOMAIN results |->
             trackResult(results[i],
                         FindCheck(st[1].cognitive_checks[1], results[i].check_name))]

\* The six `if (enabled) await runCheck(...)` of runAllChecks from the i-th on;
\* fn gives for each enabled check what its function does in this run.
RECURSIVE runChecksFrom(_, _, _, _)
runChecksFrom(i, c, en, fn) ==
    IF i > Len(CheckOrder) THEN c
    ELSE runChecksFrom(i + 1,
                       IF CheckOrder[i] \in en THEN runCheck(c, fn[CheckOrder[i]]) ELSE c,
                       en, fn)

\* What runAllChecks builds from the context after tracking.
RunOutput(c, st) ==
    [results |-> trackConsecutiveCriticals(c.results, st),
     meta |-> [total_tokens |-> c.totalTokens,
               checks_completed |-> Len(c.results),
               checks_failed |-> c.checksFailed]]

runAllChecks(en, st, fn) == RunOutput(runChecksFrom(1, NewCtx, en, fn), st)

EscInitFiles == {AbsentFile, ObjectFile(runDaemon(1)), MalformedFile(runDaemon(1))}

InitEsc ==
    /\ dirExists \in BOOLEAN
    /\ file \in IF dirExists THEN EscInitFiles ELSE {AbsentFile}
    /\ tmpFile = AbsentFile
    /\ ParkL1 /\ ParkW /\ ParkHist /\ ParkClient
    /\ clock = 0
    /\ lastResults = <<>>
    /\ streak = [n \in CheckNames |-> 0]
    /\ streakStart = [n \in CheckNames |-> 0]
    /\ allPersisted = TRUE
    /\ reply = None
    /\ enabled \in {en \in SUBSET CheckNames :
                       Cardinality(en) >= 1 /\ Cardinality(en) <= MaxEnabled}
    /\ ParkRunState /\ ParkChk

\* computeOverallSeverity(checks)
computeOverallSeverity(checks) ==
    IF \E i \in DOMAIN checks : checks[i].severity = "critical" THEN "critical"
    ELSE IF \E i \in DOMAIN checks : checks[i].severity = "warn" THEN "warn"
    ELSE "ok"

\* handleRefresh: runAllChecks, then writeCognitiveResults with its results.
\* No other process touches the path here, so the writer's read, temp write
\* and rename happen together; it returns false when the directory is
\* missing or an I/O call throws.
Refresh ==
    /\ clock < MaxRuns
    /\ \E sev \in [enabled -> Outcomes], okIo \in BOOLEAN :
          LET ts == clock + 1
              fn == [n \in enabled |->
                        IF sev[n] = "throw" THEN None
                        ELSE Some(FreshResult(n, sev[n], ts, None))]
              r == runAllChecks(enabled, readStatusFile(file), fn)
              p == [cognitive_checks |-> r.results, cognitive_meta |-> r.meta,
                    sitrep_collectors |-> None]
              written == okIo /\ dirExists
              crit(n) == n \in enabled /\ sev[n] = "critical" /\ allPersisted'
          IN /\ clock' = ts
             /\ lastResults' = r.results
             /\ file' = IF written THEN ObjectFile(Merge(ReadExisting(file), p)) ELSE file
             /\ allPersisted' = (allPersisted /\ written)
             \* the writer's return value is dropped; the text is built from
             \* the results alone
             /\ reply' = Some([headline |-> "refresh complete",
                               overall |-> computeOverallSeverity(r.results),
                               checks |-> Len(r.results)])
             \* the streaks are followed as long as every run was persisted
             /\ streak' = [n \in CheckNames |-> IF crit(n) THEN streak[n] + 1 ELSE 0]
             /\ streakStart' = [n \in CheckNames |->
                                   IF ~crit(n) THEN 0
                                   ELSE IF streak[n] = 0 THEN ts ELSE streakStart[n]]
    /\ UNCHANGED <<clientVars, dirExists, tmpFile, l1Vars, wVars, histVars, runVars, chkVars>>

NextEsc == Refresh

SpecEsc == InitEsc /\ [][NextEsc]_vars

\* C1: when every run so far was persisted and a check name's result was
\* critical in the three (or more) most recent runs, the latest result for
\* that name has escalation_needed = true.
C1_ThirdCriticalEscalates ==
    allPersisted =>
        \A i \in DOMAIN lastResults :
            streak[lastResults[i].check_name] >= EscalationThreshold
                => lastResults[i].escalation_needed = Some(TRUE)

\* C2: when every run so far was persisted, each result's
\* consecutive_critical_count is the number of consecutive most-recent runs
\* in which its check name returned critical (0 when it is not critical now).
C2_CountIsStreakLength ==
    allPersisted =>
        \A i \in DOMAIN lastResults :
            lastResults[i].consecutive_critical_count
                = Some(streak[lastResults[i].check_name])

\* C3: when every run so far was persisted, each critical result's
\* first_critical_at is the timestamp of the result that began the current
\* unbroken critical streak of its check name.
C3_FirstCriticalAtIsStreakStart ==
    allPersisted =>
        \A i \in DOMAIN lastResults :
            lastResults[i].severity = "critical"
                => lastResults[i].first_critical_at
                       = Some(streakStart[lastResults[i].check_name])

(***************************************************************************)
(* SpecRun: one call of runAllChecks, one runCheck at a time.              *)
(***************************************************************************)
\* The labels runAllChecks passes to runCheck, in order; pc holds the label
\* of the check the run is about to reach.
Labels == << "CK-01", "CK-02", "CK-03", "CK-04", "CK-05", "CK-06" >>
LabelIndex(l) == CHOOSE i \in DOMAIN Labels : Labels[i] = l
AfterLabel(l) == IF LabelIndex(l) = Len(Labels) THEN "track" ELSE Labels[LabelIndex(l) + 1]

\* The checks that call the LLM report tokens_used; the two deterministic
\* checks (pipeline correlation, anomaly detection) leave it undefined.
LlmChecks ==
    { "cognitive:goal_quality", "cognitive:thread_health",
      "cognitive:bootstrap_integrity", "cognitive:recommendations" }
TokensOf(name) == IF name \in LlmChecks THEN Some(1) ELSE None

InitRun ==
    /\ dirExists \in BOOLEAN
    /\ file \in IF dirExists THEN EscInitFiles ELSE {AbsentFile}
    /\ tmpFile = AbsentFile
    /\ ParkL1 /\ ParkW /\ ParkHist /\ ParkEsc /\ ParkChk /\ ParkClient
    /\ enabled \in SUBSET CheckNames
    /\ pc = "idle"
    /\ ctx = NewCtx
    /\ status = None
    /\ invoked = [n \in CheckNames |-> 0]
    /\ threw = {}
    /\ out = None

\* runAllChecks up to the first check: the context is created and the status
\* document is read.
RunStart ==
    /\ pc = "idle"
    /\ ctx' = NewCtx
    /\ status' = readStatusFile(file)
    /\ pc' = Labels[1]
    /\ UNCHANGED <<clientVars, fileVars, l1Vars, wVars, histVars, escVars, enabled,
                   invoked, threw, out, chkVars>>

\* `if (config.checks.<x>.enabled) await runCheck(ctx, label, fn, logger)`
\* for an enabled check: its function is called and returns or throws.
RunEnabledCheck ==
    /\ pc \in {Labels[i] : i \in DOMAIN Labels}
    /\ LET name == CheckOrder[LabelIndex(pc)]
       IN /\ name \in enabled
          /\ \E o \in Outcomes :
                LET fnOutcome == IF o = "throw" THEN None
                                 ELSE Some(FreshResult(name, o, 1, TokensOf(name)))
                IN /\ ctx' = runCheck(ctx, fnOutcome)
                   /\ threw' = IF o = "throw" THEN threw \cup {name} ELSE threw
          /\ invoked' = [invoked EXCEPT ![name] = @ + 1]
    /\ pc' = AfterLabel(pc)
    /\ UNCHANGED <<clientVars, fileVars, l1Vars, wVars, histVars, escVars, enabled,
                   status, out, chkVars>>

\* The same statement for a check that is not enabled: nothing is called.
SkipDisabledCheck ==
    /\ pc \in {Labels[i] : i \in DOMAIN Labels}
    /\ CheckOrder[LabelIndex(pc)] \notin enabled
    /\ pc' = AfterLabel(pc)
    /\ UNCHANGED <<clientVars, fileVars, l1Vars, wVars, histVars, escVars, enabled,
                   ctx, status, invoked, threw, out, chkVars>>

\* trackConsecutiveCriticals(ctx.results, status) and the return statement.
RunFinish ==
    /\ pc = "track"
    /\ out' = Some(RunOutput(ctx, status))
    /\ pc' = "done"
    /\ UNCHANGED <<clientVars, fileVars, l1Vars, wVars, histVars, escVars, enabled,
                   ctx, status, invoked, threw, chkVars>>

NextRun == RunStart \/ RunEnabledCheck \/ SkipDisabledCheck \/ RunFinish

SpecRun == InitRun /\ [][NextRun]_vars

ResultNames(results) == {results[i].check_name : i \in DOMAIN results}

\* C7: no check is ever invoked twice, and when the run has returned each
\* enabled check was invoked exactly once and no other check at all, whichever
\* checks threw; the checks that threw have no result, the others have
\* exactly one, checks_failed is the number of checks that threw, and
\* checks_completed + checks_failed is the number of enabled checks.
C7_EachEnabledCheckOnce ==
    /\ \A n \in CheckNames : invoked[n] <= 1
    /\ pc = "done" =>
          LET r == out[1]
          IN /\ \A n \in CheckNames : invoked[n] = IF n \in enabled THEN 1 ELSE 0
             /\ ResultNames(r.results) = enabled \ threw
             /\ Len(r.results) = Cardinality(enabled \ threw)
             /\ r.meta.checks_failed = Cardinality(threw)
             /\ r.meta.checks_completed + r.meta.checks_failed = Cardinality(enabled)

\* C7 witness: a run has returned in which an early check threw, a later
\* check still ran and produced a result, and both are counted.
C7_Witness ==
    /\ pc = "done"
    /\ "cognitive:goal_quality" \in threw
    /\ "cognitive:recommendations" \in ResultNames(out[1].results)
    /\ out[1].meta.checks_failed = 1
    /\ out[1].meta.checks_completed = 2

(***************************************************************************)
(* SpecCheck: one call of an LLM-backed check with a pre-filter            *)
(* (goal quality through runLlmCheck, thread health with its own copy of   *)
(* the protocol) on a bounded subject file and a bounded LLM answer.       *)
(***************************************************************************)
MaxSubjects == 1      \* goals / threads in the subject file
MaxLlmFindings == 2   \* elements of the LLM's findings array
Now == 100            \* Date.now(), in hours
StaleDays == 1        \* config.staleDays of the thread-health check

\* JSON values a key can hold, as far as the checks tell them apart: the key
\* is absent, holds a string, or holds a number.
Undefined == [type |-> "undefined", v |-> ""]
Str(x) == [type |-> "string", v |-> x]
Num(x) == [type |-> "number", v |-> x]
\* Boolean(x) of JavaScript on these values.
Truthy(x) == \/ x.type = "string" /\ x.v # ""
             \/ x.type = "number" /\ x.v # "0"
\* typeof x === "string" ? x : undefined
StringOrUndefined(x) == IF x.type = "string" THEN x ELSE Undefined

\* check-utils parseSeverityString (thread-health.ts has a copy): anything
\* but one of the three strings is "ok".
parseSeverityString(x) == IF x.type = "string" /\ x.v \in Severity THEN x.v ELSE "ok"

\* ---- subject files
SubjectIds == {Undefined, Str(""), Str("s1")}
\* A pending goal: id, expires, status, proposed_at (times in hours).
Goals ==
    [id : SubjectIds,
     expires : {None, Some(Now - 1), Some(Now)},
     proposal : {[status |-> "active", proposed_at |-> None],
                 [status |-> "proposed", proposed_at |-> Some(Now - 49)]}]
\* A thread: id, status, last_activity.
Threads ==
    [id : SubjectIds,
     status : {"open", "closed"},
     last_activity : {None, Some(Now - (StaleDays * 24) - 1), Some(Now - (StaleDays * 24))}]

SeqsUpTo(S, n) == UNION {[1..k -> S] : k \in 0..n}

\* What readJsonInput finds at inputPath: nothing readable (null), a JSON
\* value that holds no array, or an array of subjects.
NoData == [shape |-> "none", items |-> <<>>]
OtherData == [shape |-> "other", items |-> <<>>]
ArrayData(items) == [shape |-> "array", items |-> items]
DataOf(S) == {NoData, OtherData} \cup {ArrayData(l) : l \in SeqsUpTo(S, MaxSubjects)}

\* extractGoals / extractThreads
extractGoals(data) == IF data.shape = "array" THEN data.items ELSE <<>>
extractThreads(data) == IF data.shape = "array" THEN data.items ELSE <<>>

\* ---- pre-filters
StaleProposalHours == 48

checkExpired(goal) ==
    IF goal.expires # None /\ goal.expires[1] < Now
    THEN << [id |-> goal.id, issue |-> "expired"] >>
    ELSE <<>>

checkStaleProposal(goal) ==
    IF /\ goal.proposal.proposed_at # None
       /\ goal.proposal.status = "proposed"
       /\ Now - goal.proposal.proposed_at[1] > StaleProposalHours
    THEN << [id |-> goal.id, issue |-> "stale_proposal"] >>
    ELSE <<>>

RECURSIVE preFilterGoals(_)
preFilterGoals(goals) ==
    IF goals = <<>> THEN <<>>
    ELSE checkExpired(Head(goals)) \o checkStaleProposal(Head(goals))
            \o preFilterGoals(Tail(goals))

\* A pre-filter that does not look at the status of a thread.
RECURSIVE preFilterThreadsAnyStatus(_, _)
preFilterThreadsAnyStatus(threads, staleDays) ==
    IF threads = <<>> THEN <<>>
    ELSE LET t == Head(threads)
             stale == /\ t.last_activity # None
                      /\ Now - t.last_activity[1] > staleDays * 24
         IN (IF stale THEN << [id |-> t.id, issue |-> "stale"] >> ELSE <<>>)
               \o preFilterThreadsAnyStatus(Tail(threads), staleDays)

RECURSIVE preFilterThreads(_, _)
preFilterThreads(threads, staleDays) ==
    IF threads = <<>> THEN <<>>
    ELSE LET t == Head(threads)
             stale == /\ t.status = "open"
                      /\ t.last_activity # None
                      /\ Now - t.last_activity[1] > staleDays * 24
         IN (IF stale THEN << [id |-> t.id, issue |-> "stale"] >> ELSE <<>>)
               \o preFilterThreads(Tail(threads), staleDays)

\* The pre-filter severity stuck at warn.
PreSeverityWarn(findings) == "warn"

\* severity: findings.length > 0 ? "warn" : "ok"
PreSeverity(findings) == IF Len(findings) > 0 THEN "warn" ELSE "ok"

\* ---- LLM answers
\* An element of the findings array: null, or an object with some item_id /
\* thread_id.
NullItem == [isNull |-> TRUE, id |-> Undefined]
Item(id) == [isNull |-> FALSE, id |-> id]
LlmItems == {NullItem} \cup {Item(id) : id \in {Undefined, Str(""), Str("s1"), Num("1")}}
NoFindings == [isArray |-> FALSE, items |-> <<>>]
LlmFindingsValues ==
    {NoFindings} \cup {[isArray |-> TRUE, items |-> l] : l \in SeqsUpTo(LlmItems, MaxLlmFindings)}
LlmSeverityValues == {Undefined, Str("ok"), Str("warn"), Str("critical"), Str("CRITICAL")}

\* The parsed document: a falsy JSON value (null, 0, false, ""), or a value
\* with the keys severity and findings (a truthy scalar has neither key).
FalsyJson == [truthy |-> FALSE, severity |-> Undefined, findings |-> NoFindings]
ParsedValues ==
    {FalsyJson} \cup [truthy : {TRUE}, severity : LlmSeverityValues, findings : LlmFindingsValues]

\* LlmResult: content is null (error or timeout), text JSON.parse rejects, or
\* JSON text.
LlmAnswers ==
    {[content |-> "null", parsed |-> FalsyJson, tokens |-> 0],
     [content |-> "unparsable", parsed |-> FalsyJson, tokens |-> 1]}
    \cup {[content |-> "json", parsed |-> v, tokens |-> 1] : v \in ParsedValues}

\* parseLlmJson / parseLlmResponse: null when JSON.parse throws.
parseLlmJson(answer) == IF answer.content = "json" THEN Some(answer.parsed) ELSE None

\* ---- what a check does: it returns a result or throws
CheckResult(name, sev, findings, tokens) ==
    [check_name |-> name, severity |-> sev, findings |-> findings, tokens_used |-> tokens]
Returned(r) == [threw |-> FALSE, result |-> r]
Thrown == [threw |-> TRUE, result |-> CheckResult("", "ok", None, None)]

\* parsed.findings.map((f) => ... f.item_id ...) throws a TypeError on a null
\* element.
FindingsMapThrows(parsed) ==
    parsed.findings.isArray
        /\ \E i \in DOMAIN parsed.findings.items : parsed.findings.items[i].isNull

\* The llmFindings of mergeLlmFindings / runThreadHealthCheck.
LlmFindings(parsed) ==
    IF parsed.findings.isArray
    THEN [i \in DOMAIN parsed.findings.items |->
             [id |-> StringOrUndefined(parsed.findings.items[i].id), issue |-> "unknown"]]
    ELSE <<>>

\* mergeLlmFindings without the filter on seen ids.
mergeLlmFindingsNoDedup(preFindings, parsed) == preFindings \o LlmFindings(parsed)

\* goal-quality mergeLlmFindings; thread-health has the same statements inline.
mergeLlmFindings(preFindings, parsed) ==
    LET seenIds == {id \in {preFindings[i].id : i \in DOMAIN preFindings} : Truthy(id)}
        keep(f) == ~Truthy(f.id) \/ f.id \notin seenIds
    IN preFindings \o SelectSeq(LlmFindings(parsed), keep)

\* buildFailOpen reporting critical instead of the pre-filter severity.
buildFailClosed(name, preFindings, llmTokens) ==
    CheckResult(name, "critical", Some(preFindings), Some(llmTokens))

\* goal-quality buildFailOpen
buildFailOpen(name, preFindings, llmTokens) ==
    CheckResult(name, PreSeverity(preFindings), Some(preFindings), Some(llmTokens))


\* goal-quality mergeResults
mergeResults(name, preFindings, parsed, llmTokens) ==
    CheckResult(name,
                worstSeverity(<<parseSeverityString(parsed.severity), PreSeverity(preFindings)>>),
                Some(mergeLlmFindings(preFindings, parsed)),
                Some(llmTokens))

\* runLlmCheck from the call of llm.generate on, for goal quality.
runLlmCheck(name, preFindings, answer) ==
    IF answer.content = "null" THEN Returned(buildFailOpen(name, preFindings, 0))
    ELSE LET parsed == parseLlmJson(answer)
         IN IF parsed = None \/ ~parsed[1].truthy
            THEN Returned(buildFailOpen(name, preFindings, answer.tokens))
            ELSE IF FindingsMapThrows(parsed[1]) THEN Thrown
            ELSE Returned(mergeResults(name, preFindings, parsed[1], answer.tokens))

\* runThreadHealthCheck from the call of llm.generate on.
threadHealthAfterLlm(name, preFindings, answer) ==
    IF answer.content = "null"
    THEN Returned(CheckResult(name, PreSeverity(preFindings), Some(preFindings), Some(0)))
    ELSE LET parsed == parseLlmJson(answer)
         IN IF parsed = None \/ ~parsed[1].truthy
            THEN Returned(CheckResult(name, PreSeverity(preFindings), Some(preFindings),
                                      Some(answer.tokens)))
            ELSE IF FindingsMapThrows(parsed[1]) THEN Thrown
            ELSE Returned(CheckResult(name,
                            worstSeverity2(parseSeverityString(parsed[1].severity),
                                           PreSeverity(preFindings)),
                            Some(mergeLlmFindings(preFindings, parsed[1])),
                            Some(answer.tokens)))

\* The terminal result of a check whose subject is absent or empty.
SkipResult(name) == CheckResult(name, "ok", None, None)

\* ---- the two LLM-backed checks without a pre-filter
MaxRecommendations == 1   \* config.maxRecommendations

\* What readTextInput finds at the bootstrap path: nothing readable, an empty
\* text, or some text.
TextData(chars) == [shape |-> "text", items |-> chars]
BootstrapData == {NoData, TextData(<<>>), TextData(<<"B">>)}
\* The subject of the recommendations check is the summary it builds itself
\* from the results of the run; it is never absent.
SummaryData == [shape |-> "summary", items |-> <<>>]

\* status-reader readTextInput: null when the file is absent or unreadable.
readTextInput(data) == IF data.shape = "none" THEN None ELSE Some(data.items)

\* A result with a recommendations list (recommendations check).
RecsResult(name, sev, recs, tokens) ==
    [check_name |-> name, severity |-> sev, findings |-> None,
     tokens_used |-> tokens, recommendations |-> recs]

\* readInput answering ok for every input.
readInputNeverSkips(check, data) == None

\* readInput ending a check on a missing bootstrap file with severity ok.
readInputSkipsOk(check, data) ==
    IF check = "cognitive:bootstrap_integrity" /\ readTextInput(data) = None
    THEN Some(SkipResult(check))
    ELSE None

\* The readInput callbacks of bootstrap integrity and recommendations: the
\* skip result when the input stage ends the check, none when it goes on.
readInput(check, data) ==
    IF check = "cognitive:bootstrap_integrity" /\ readTextInput(data) = None
    THEN Some(CheckResult(check, "warn", None, None))
    ELSE None

\* bootstrap-integrity parseFindings (it throws on a null element, see
\* FindingsMapThrows): the findings carry no subject id.
parseFindings(parsed) ==
    IF parsed.findings.isArray
    THEN [i \in DOMAIN parsed.findings.items |-> [issue |-> "unknown"]]
    ELSE <<>>

\* recommendations parseRecommendations: the array under the key
\* recommendations (held in the field findings of the parsed document here) is
\* cut to max elements and then mapped; the map throws on a null element.
Min(a, b) == IF a <= b THEN a ELSE b
RecommendationsMapThrows(parsed, max) ==
    parsed.findings.isArray
        /\ \E i \in 1..Min(Len(parsed.findings.items), max) : parsed.findings.items[i].isNull
\* One mapped element: the defaults for type and priority, the target the
\* element names (its id here) or "unknown".
Recommendation(r) ==
    [type |-> "maintenance",
     target |-> IF r.id.type = "string" THEN r.id.v ELSE "unknown",
     priority |-> "low"]

\* parseRecommendations without the slice.
parseRecommendationsAll(parsed, max) ==
    IF parsed.findings.isArray
    THEN [i \in DOMAIN parsed.findings.items |-> Recommendation(parsed.findings.items[i])]
    ELSE <<>>

parseRecommendations(parsed, max) ==
    IF parsed.findings.isArray
    THEN [i \in 1..Min(Len(parsed.findings.items), max) |->
             Recommendation(parsed.findings.items[i])]
    ELSE <<>>

\* runLlmCheck from the call of llm.generate on, with the results its
\* buildFailOpen and mergeResults callbacks give for this answer.
runLlmCheckWith(answer, failOpenNoContent, failOpenNoParse, mergeThrows, merged) ==
    IF answer.content = "null" THEN Returned(failOpenNoContent)
    ELSE LET parsed == parseLlmJson(answer)
         IN IF parsed = None \/ ~parsed[1].truthy THEN Returned(failOpenNoParse)
            ELSE IF mergeThrows THEN Thrown
            ELSE Returned(merged)

\* runBootstrapIntegrityCheck from the call of llm.generate on.
bootstrapAfterLlm(name, answer) ==
    runLlmCheckWith(answer,
        CheckResult(name, "ok", None, Some(0)),
        CheckResult(name, "ok", None, Some(answer.tokens)),
        FindingsMapThrows(answer.parsed),
        CheckResult(name, parseSeverityString(answer.parsed.severity),
                    Some(parseFindings(answer.parsed)), Some(answer.tokens)))

\* runRecommendationsCheck from the call of llm.generate on.
recommendationsAfterLlm(name, answer, max) ==
    runLlmCheckWith(answer,
        RecsResult(name, "ok", Some(<<>>), Some(0)),
        RecsResult(name, "ok", Some(<<>>), Some(answer.tokens)),
        RecommendationsMapThrows(answer.parsed, max),
        RecsResult(name, parseSeverityString(answer.parsed.severity),
                   Some(parseRecommendations(answer.parsed, max)), Some(answer.tokens)))

InitCheck ==
    /\ dirExists = FALSE
    /\ file = AbsentFile
    /\ tmpFile = AbsentFile
    /\ ParkL1 /\ ParkW /\ ParkHist /\ ParkEsc /\ ParkRun /\ ParkClient
    /\ chkInput \in
         {[check |-> "cognitive:goal_quality", data |-> d, llm |-> None] : d \in DataOf(Goals)}
         \cup
         {[check |-> "cognitive:thread_health", data |-> d, llm |-> None] : d \in DataOf(Threads)}
         \cup
         {[check |-> "cognitive:bootstrap_integrity", data |-> d, llm |-> None] :
             d \in BootstrapData}
         \cup
         {[check |-> "cognitive:recommendations", data |-> SummaryData, llm |-> None]}
    /\ chkResult = None

\* runGoalQualityCheck: readInput, preFilter, llm.generate, fail-open or merge.
RunGoalQualityCheck ==
    /\ chkResult = None
    /\ chkInput.check = "cognitive:goal_quality"
    /\ LET goals == extractGoals(chkInput.data)
       IN IF chkInput.data.shape = "none" \/ Len(goals) = 0
          THEN /\ chkResult' = Some(Returned(SkipResult(chkInput.check)))
               /\ chkInput' = chkInput
          ELSE \E answer \in LlmAnswers :
                  /\ chkInput' = [chkInput EXCEPT !.llm = Some(answer)]
                  /\ chkResult' = Some(runLlmCheck(chkInput.check, preFilterGoals(goals), answer))
    /\ UNCHANGED <<clientVars, fileVars, l1Vars, wVars, histVars, escVars, runVars>>

\* runThreadHealthCheck
RunThreadHealthCheck ==
    /\ chkResult = None
    /\ chkInput.check = "cognitive:thread_health"
    /\ LET threads == extractThreads(chkInput.data)
       IN IF chkInput.data.shape = "none" \/ Len(threads) = 0
          THEN /\ chkResult' = Some(Returned(SkipResult(chkInput.check)))
               /\ chkInput' = chkInput
          ELSE \E answer \in LlmAnswers :
                  /\ chkInput' = [chkInput EXCEPT !.llm = Some(answer)]
                  /\ chkResult' = Some(threadHealthAfterLlm(chkInput.check,
                                          preFilterThreads(threads, StaleDays), answer))
    /\ UNCHANGED <<clientVars, fileVars, l1Vars, wVars, histVars, escVars, runVars>>

\* runLlmCheck for the two checks without a pre-filter: readInput, then
\* llm.generate, then fail-open or merge.
RunBootstrapIntegrityCheck ==
    /\ chkResult = None
    /\ chkInput.check = "cognitive:bootstrap_integrity"
    /\ LET skip == readInput(chkInput.check, chkInput.data)
       IN IF skip # None
          THEN /\ chkResult' = Some(Returned(skip[1]))
               /\ chkInput' = chkInput
          ELSE \E answer \in LlmAnswers :
                  /\ chkInput' = [chkInput EXCEPT !.llm = Some(answer)]
                  /\ chkResult' = Some(bootstrapAfterLlm(chkInput.check, answer))
    /\ UNCHANGED <<clientVars, fileVars, l1Vars, wVars, histVars, escVars, runVars>>

RunRecommendationsCheck ==
    /\ chkResult = None
    /\ chkInput.check = "cognitive:recommendations"
    /\ LET skip == readInput(chkInput.check, chkInput.data)
       IN IF skip # None
          THEN /\ chkResult' = Some(Returned(skip[1]))
               /\ chkInput' = chkInput
          ELSE \E answer \in LlmAnswers :
                  /\ chkInput' = [chkInput EXCEPT !.llm = Some(answer)]
                  /\ chkResult' = Some(recommendationsAfterLlm(chkInput.check, answer,
                                                               MaxRecommendations))
    /\ UNCHANGED <<clientVars, fileVars, l1Vars, wVars, histVars, escVars, runVars>>

NextCheck ==
    \/ RunGoalQualityCheck
    \/ RunThreadHealthCheck
    \/ RunBootstrapIntegrityCheck
    \/ RunRecommendationsCheck

SpecCheck == InitCheck /\ [][NextCheck]_vars

\* The check has returned a result after calling the LLM.
ChkReturnedAfterLlm ==
    chkResult # None /\ ~chkResult[1].threw /\ chkInput.llm # None

\* The check is one of the two that have a pre-filter.
ChkHasPreFilter ==
    chkInput.check \in {"cognitive:goal_quality", "cognitive:thread_health"}

\* What the pre-filter of the check alone produces on the subject file.
ChkPreFindings ==
    IF chkInput.check = "cognitive:goal_quality"
    THEN preFilterGoals(extractGoals(chkInput.data))
    ELSE preFilterThreads(extractThreads(chkInput.data), StaleDays)

\* C8: for goal quality and thread health, when the LLM call gave content
\* null or text that fails JSON parsing, the check returns a result whose
\* findings are exactly the pre-filter's findings and whose severity is warn
\* if the pre-filter found anything and ok otherwise, never critical.
C8_FailOpenKeepsPreFilterFloor ==
    (/\ ChkHasPreFilter
     /\ chkResult # None
     /\ chkInput.llm # None
     /\ chkInput.llm[1].content \in {"null", "unparsable"})
    => /\ ~chkResult[1].threw
       /\ chkResult[1].result.findings = Some(ChkPreFindings)
       /\ chkResult[1].result.severity = (IF ChkPreFindings # <<>> THEN "warn" ELSE "ok")
       /\ chkResult[1].result.severity # "critical"

\* C8 witness: the LLM's text did not parse, the pre-filter had found
\* something, and the check returned warn with the pre-filter's findings.
C8_Witness ==
    /\ ChkHasPreFilter
    /\ ChkReturnedAfterLlm
    /\ chkInput.llm[1].content = "unparsable"
    /\ ChkPreFindings # <<>>
    /\ chkResult[1].result.severity = "warn"
    /\ chkResult[1].result.findings = Some(ChkPreFindings)

\* The subject id a finding carries: its item_id / thread_id when that is a
\* non-empty string, none otherwise.
SubjectOf(id) == IF id.type = "string" /\ id.v # "" THEN Some(id.v) ELSE None

\* C9: when the LLM response parsed and the check returned, the final
\* findings start with all the pre-filter findings, in order, and continue
\* with exactly those LLM findings, in order, that carry no subject id (no
\* id, or an empty one) or whose subject id is that of no pre-filter finding.
C9_PreFilterKeptLlmDeduplicated ==
    (ChkHasPreFilter /\ ChkReturnedAfterLlm /\ chkInput.llm[1].content = "json")
    => LET pre == ChkPreFindings
           final == chkResult[1].result.findings[1]
           preSubjects == {SubjectOf(pre[i].id) : i \in DOMAIN pre} \ {None}
           included(item) == SubjectOf(item.id) = None \/ SubjectOf(item.id) \notin preSubjects
           expected == SelectSeq(chkInput.llm[1].parsed.findings.items, included)
           rest == SubSeq(final, Len(pre) + 1, Len(final))
       IN /\ Len(final) >= Len(pre)
          /\ SubSeq(final, 1, Len(pre)) = pre
          /\ Len(rest) = Len(expected)
          /\ \A k \in DOMAIN expected : SubjectOf(rest[k].id) = SubjectOf(expected[k].id)

\* C9 witness: the pre-filter has a finding for subject s1 and the LLM answered
\* two findings, one for s1 and one without an id; the final findings are the
\* pre-filter's plus the one without an id.
C9_Witness ==
    /\ ChkHasPreFilter
    /\ ChkReturnedAfterLlm
    /\ chkInput.llm[1].content = "json"
    /\ chkInput.llm[1].parsed.findings.items = << Item(Str("s1")), Item(Undefined) >>
    /\ ChkPreFindings # <<>>
    /\ ChkPreFindings[1].id = Str("s1")
    /\ Len(chkResult[1].result.findings[1]) = Len(ChkPreFindings) + 1

\* C10: when the LLM response parsed and the check returned, the final
\* severity is the worse of the LLM's severity (ok when it is not one of the
\* three names) and the pre-filter severity, so it is never lower than the
\* pre-filter severity.
C10_SeverityIsWorstOfBoth ==
    (ChkHasPreFilter /\ ChkReturnedAfterLlm /\ chkInput.llm[1].content = "json")
    => LET raw == chkInput.llm[1].parsed.severity
           llmSeverity == IF raw \in {Str("ok"), Str("warn"), Str("critical")} THEN raw.v ELSE "ok"
           preSeverity == IF ChkPreFindings # <<>> THEN "warn" ELSE "ok"
           both == {llmSeverity, preSeverity}
           final == chkResult[1].result.severity
       IN /\ final = (IF "critical" \in both THEN "critical"
                      ELSE IF "warn" \in both THEN "warn" ELSE "ok")
          /\ order(final) >= order(preSeverity)

\* C10 witness: the LLM answered severity ok while the pre-filter had a
\* finding, and the goal-quality check returned warn.
C10_Witness ==
    /\ ChkReturnedAfterLlm
    /\ chkInput.check = "cognitive:goal_quality"
    /\ chkInput.llm[1].content = "json"
    /\ chkInput.llm[1].parsed.truthy
    /\ chkInput.llm[1].parsed.severity = Str("ok")
    /\ ChkPreFindings # <<>>
    /\ chkResult[1].result.severity = "warn"

\* The input stage of the check finds its subject absent or empty: nothing
\* readable at the input path, or, for goal quality and thread health, no
\* goal / thread in what was read.
ChkSubjectMissing ==
    \/ chkInput.data.shape = "none"
    \/ ChkHasPreFilter /\ chkInput.data.items = <<>>

C12_ChecksNeverThrow ==
    chkResult # None => ~chkResult[1].threw

C14_UnreachableWithoutSignalIsOk ==
    (/\ chkResult # None
     /\ chkInput.llm # None
     /\ chkInput.llm[1].content = "null"
     /\ ChkPreFindings = <<>>)
    => /\ ~chkResult[1].threw
       /\ chkResult[1].result.severity = "ok"
       /\ chkResult[1].result.findings \in {None, Some(<<>>)}
       /\ chkInput.check = "cognitive:recommendations"
             => chkResult[1].result.recommendations = Some(<<>>)

\* C14 witness: the recommendations check ended with the LLM unreachable and
\* returned ok with an empty list.
C14_Witness ==
    /\ chkResult # None
    /\ chkInput.check = "cognitive:recommendations"
    /\ chkInput.llm # None
    /\ chkInput.llm[1].content = "null"
    /\ chkResult[1].result.severity = "ok"
    /\ chkResult[1].result.recommendations = Some(<<>>)

\* ========================================================================
\* SpecLlm: one generate call of the LLM client (src/src/llm-client.ts)
\* ========================================================================

MaxTimeoutMs == 2     \* largest timeoutMs argument, in clock ticks
MaxNow == 5           \* time is followed up to this many ticks after startMs
MaxLate == 1          \* events delivered to settled requests, per generate call

\* createLlmClient's two provider descriptors (defaults of the configuration).
primary == [provider |-> "ollama", model |-> "primary-model"]
fallback == [provider |-> "litellm", model |-> "fallback-model"]

\* `${config.provider}/${config.model}`
ModelId(config) == <<config.provider, "/", config.model>>

\* The arguments generate is called with.
GenerateArgs ==
    [systemPrompt : {"system"}, userPrompt : {"user-a", "user-b"},
     timeoutMs : 1..MaxTimeoutMs]

\* ---- what a provider can send back: a status line and a body
StatusCodes == {"200", "500"}
Is2xx(code) == code = "200"

NotJson == [json |-> FALSE, isObject |-> FALSE, choices |-> <<>>, totalTokens |-> None]
JsonScalar == [json |-> TRUE, isObject |-> FALSE, choices |-> <<>>, totalTokens |-> None]
\* An object; choices is its "choices" array (empty also when the key is
\* missing), each choice carrying its message content when that is a string.
Envelope(choices, totalTokens) ==
    [json |-> TRUE, isObject |-> TRUE, choices |-> choices, totalTokens |-> totalTokens]
Bodies ==
    {NotJson, JsonScalar}
    \cup {Envelope(c, t) : c \in {<<>>, <<None>>, <<Some("answer")>>},
                           t \in {None, Some(7)}}

\* ---- RawCompletion
RawCompletion(content, tokens, error) ==
    [content |-> content, tokens |-> tokens, error |-> error]
Failure(error) == RawCompletion(None, 0, Some(error))

\* parseCompletionResponse, for a body JSON.parse accepts.
parseCompletionResponse(data) ==
    IF ~data.isObject THEN Failure("Invalid response structure")
    ELSE IF data.choices = <<>> THEN Failure("Invalid response structure")
    ELSE RawCompletion(data.choices[1], OrElse(data.totalTokens, 0), None)

\* sendHttpRequest's response callback at "end": the status code of the
\* response is not read; the body alone decides.
onEnd(statusCode, data) ==
    IF ~data.json THEN Failure("Failed to parse LLM response JSON")
    ELSE parseCompletionResponse(data)

\* One provider request, as generate issues it.
Request(config, args, primSettled) ==
    [config |-> config, systemPrompt |-> args.systemPrompt,
     userPrompt |-> args.userPrompt, timeoutMs |-> args.timeoutMs,
     at |-> now, primSettled |-> primSettled]

\* ---- generate's decisions
alwaysFallback(p) == TRUE
\* line 105: the fallback is tried unless prim.content !== null
shouldFallback(p) == p.content = None

LlmResponse(content, model, tokens, durationMs, error) ==
    [content |-> content, model |-> model, tokens |-> tokens,
     durationMs |-> durationMs, error |-> error]

generateReturnPrimaryModel(p, f, durationMs) ==
    IF p.content # None
    THEN LlmResponse(p.content, ModelId(primary), p.tokens, durationMs, None)
    ELSE IF f[1].content # None
    THEN LlmResponse(f[1].content, ModelId(primary), f[1].tokens, durationMs, None)
    ELSE LlmResponse(None, ModelId(primary), 0, durationMs,
                     Some(<<"Both providers failed. Primary: ", OrElse(p.error, "unknown"),
                            "; Fallback: ", OrElse(f[1].error, "unknown")>>))

\* lines 105-122: the three return statements; p is prim, f is fb as an
\* option (fb does not exist when the primary answered).
generateReturn(p, f, durationMs) ==
    IF p.content # None
    THEN LlmResponse(p.content, ModelId(primary), p.tokens, durationMs, None)
    ELSE IF f[1].content # None
    THEN LlmResponse(f[1].content, ModelId(fallback), f[1].tokens, durationMs, None)
    ELSE LlmResponse(None, ModelId(primary), 0, durationMs,
                     Some(<<"Both providers failed. Primary: ", OrElse(p.error, "unknown"),
                            "; Fallback: ", OrElse(f[1].error, "unknown")>>))

InitLlm ==
    /\ dirExists = FALSE
    /\ file = AbsentFile
    /\ tmpFile = AbsentFile
    /\ ParkL1 /\ ParkW /\ ParkHist /\ ParkEsc /\ ParkRun /\ ParkChk /\ ParkSeq /\ ParkFn
    /\ ParkOv
    /\ genArgs \in GenerateArgs
    /\ ParkLlmState

Pending == genPc \in {"primary", "fallback"}

LlmFrame == UNCHANGED <<fileVars, l1Vars, wVars, histVars, escVars, runVars, chkVars,
                        seqVars, fnVars, ovVars, genArgs>>

\* The handlers on one request (lines 68-82) share the resolve function of its
\* promise (line 47): the first call settles the promise, later calls do nothing.
resolveLastWins(settled, raw) == Some(raw)

resolve(settled, raw) == IF settled = None THEN Some(raw) ELSE settled

\* What the handler of a late event passes to resolve.
LateOutcome == [error |-> Failure("socket hang up"), timeout |-> Failure("Timeout")]

\* generate, lines 101-104: startMs is taken and the primary request is sent.
Generate ==
    /\ genPc = "idle"
    /\ genPc' = "primary"
    /\ requests' = <<Request(primary, genArgs, FALSE)>>
    /\ idle' = 0
    /\ UNCHANGED <<now, prim, fb, answeredBy, primStatus, response>>
    /\ late' = late
    /\ LlmFrame

\* The pending sendHttpRequest promise resolves with raw, and generate runs on
\* to its next await or to a return (lines 104-122).
Settle(raw) ==
    /\ answeredBy' = IF raw.content # None
                     THEN Some(requests[Len(requests)].config) ELSE answeredBy
    /\ IF genPc = "primary"
       THEN /\ prim' = Some(raw)
            /\ fb' = fb
            /\ IF shouldFallback(raw)
               THEN /\ genPc' = "fallback"
                    /\ requests' = Append(requests, Request(fallback, genArgs, TRUE))
                    /\ idle' = 0
                    /\ response' = response
               ELSE /\ genPc' = "done"
                    /\ response' = Some(generateReturn(raw, None, now))
                    /\ UNCHANGED <<requests, idle>>
       ELSE /\ fb' = Some(raw)
            /\ prim' = prim
            /\ genPc' = "done"
            /\ response' = Some(generateReturn(prim[1], Some(raw), now))
            /\ UNCHANGED <<requests, idle>>

\* Time passes while a request is pending. The request option timeout:
\* timeoutMs (line 64) arms the socket's inactivity timer, so the clock cannot
\* pass the moment the socket has been idle for timeoutMs.
Tick ==
    /\ Pending
    /\ now < MaxNow
    /\ idle < genArgs.timeoutMs
    /\ now' = now + 1
    /\ idle' = idle + 1
    /\ UNCHANGED <<genPc, requests, prim, fb, answeredBy, primStatus, response>>
    /\ late' = late
    /\ LlmFrame

\* The provider sends some bytes (headers, or a chunk of the body, line 67)
\* without ending the response: the inactivity timer starts again.
ProviderSendsChunk ==
    /\ Pending
    /\ idle > 0
    /\ idle' = 0
    /\ UNCHANGED <<genPc, now, requests, prim, fb, answeredBy, primStatus, response>>
    /\ late' = late
    /\ LlmFrame

\* The provider's response ends (lines 68-71).
ProviderResponds ==
    /\ Pending
    /\ \E statusCode \in StatusCodes, data \in Bodies :
          /\ primStatus' = IF genPc = "primary" THEN Some(statusCode) ELSE primStatus
          /\ Settle(onEnd(statusCode, data))
    /\ now' = now
    /\ late' = late
    /\ LlmFrame

\* The request fails: connection refused, reset, DNS (lines 73-76).
RequestError ==
    /\ Pending
    /\ Settle(Failure("ECONNREFUSED"))
    /\ UNCHANGED <<now, primStatus, late>>
    /\ LlmFrame

\* The socket has been idle for timeoutMs: "timeout" fires, the request is
\* destroyed (lines 77-82).
RequestTimeout ==
    /\ Pending
    /\ idle = genArgs.timeoutMs
    /\ Settle(Failure("Timeout"))
    /\ UNCHANGED <<now, primStatus, late>>
    /\ LlmFrame

\* An event reaches a request whose promise has settled: the "error" that
\* req.destroy() raises after a timeout (line 78), or an error or an idle
\* timeout on the socket after the response ended. Its handler calls resolve
\* once more (lines 75, 81). generate's continuation (lines 105-110) runs when
\* the awaited promise settles, so it would run again, and send the fallback
\* request again, only if that call settled the promise anew.
LateEvent ==
    /\ Len(late) < MaxLate
    /\ \E i \in DOMAIN requests, event \in DOMAIN LateOutcome :
          LET settled == IF i = 1 THEN prim ELSE fb
              value == resolve(settled, LateOutcome[event])
          IN /\ settled # None
             /\ prim' = IF i = 1 THEN value ELSE prim
             /\ fb' = IF i = 1 THEN fb ELSE value
             /\ requests' = IF i = 1 /\ value # settled /\ shouldFallback(value[1])
                            THEN Append(requests, Request(fallback, genArgs, TRUE))
                            ELSE requests
             /\ late' = Append(late, [request |-> i, event |-> event])
    /\ UNCHANGED <<genPc, now, idle, answeredBy, primStatus, response>>
    /\ LlmFrame

NextLlm ==
    \/ Generate
    \/ Tick
    \/ ProviderSendsChunk
    \/ ProviderResponds
    \/ RequestError
    \/ RequestTimeout
    \/ LateEvent

SpecLlm == InitLlm /\ [][NextLlm]_vars

\* ---- claims about generate

SamePrompts(r) ==
    /\ r.systemPrompt = genArgs.systemPrompt
    /\ r.userPrompt = genArgs.userPrompt

\* C15: in every generate call the primary provider is attempted first; the
\* fallback is attempted if and only if the primary attempt failed, only after
\* that attempt has finished, and with the same system and user prompts; no
\* provider is attempted twice, so a call makes at most two provider requests.
C15_PrimaryThenFallbackOnce ==
    /\ Len(requests) <= 2
    /\ genPc # "idle" => /\ Len(requests) >= 1
                         /\ requests[1].config = primary
                         /\ SamePrompts(requests[1])
    /\ Len(requests) = 2 =>
          /\ requests[2].config = fallback
          /\ requests[2].config # requests[1].config
          /\ SamePrompts(requests[2])
          /\ requests[2].primSettled
          /\ prim # None /\ prim[1].content = None
    /\ genPc = "done" => (Len(requests) = 2 <=> prim[1].content = None)
    /\ (genPc = "primary" => Len(requests) = 1) /\ (genPc = "fallback" => Len(requests) = 2)

C15_Witness ==
    /\ genPc = "done"
    /\ Len(requests) = 2
    /\ requests[2].userPrompt = "user-b"
    /\ response[1].content # None

\* C16: every generate response: when content is non-null, model is the
\* "<provider>/<model>" identifier of the provider whose response supplied
\* the content; when content is null, both providers failed, tokens is 0,
\* error is non-empty and names both failures, and model is the primary's
\* identifier.
C16_ResponseAttribution ==
    response # None =>
        LET r == response[1] IN
        IF r.content # None
        THEN /\ answeredBy # None
             /\ r.model = ModelId(answeredBy[1])
             /\ r.content = (IF answeredBy[1] = primary THEN prim[1] ELSE fb[1]).content
        ELSE /\ prim # None /\ prim[1].content = None
             /\ fb # None /\ fb[1].content = None
             /\ r.tokens = 0
             /\ r.error # None
             /\ r.error[1] # <<>>
             /\ r.error[1][2] = OrElse(prim[1].error, "unknown")
             /\ r.error[1][4] = OrElse(fb[1].error, "unknown")
             /\ r.model = ModelId(primary)

C16_Witness ==
    /\ response # None
    /\ response[1].content # None
    /\ answeredBy = Some(fallback)
    /\ response[1].model = ModelId(fallback)

\* C17: a primary response with a non-2xx status is a failed attempt whatever
\* its body holds: the fallback is attempted, and the response's content is
\* never returned to the caller.
C17_Non2xxIsFailure ==
    (primStatus # None /\ ~Is2xx(primStatus[1])) =>
        /\ prim[1].content = None
        /\ Len(requests) = 2
        /\ answeredBy # Some(primary)

\* C18: every generate call resolves no later than timeoutMs after it was
\* started, whatever the providers do; the deadline is shared by the primary
\* and the fallback attempt.
C18_ResolvesByDeadline ==
    /\ Pending => now <= genArgs.timeoutMs
    /\ response # None => response[1].durationMs <= genArgs.timeoutMs

\* ========================================================================
\* SpecSeq: one orchestrator run, followed from one suspension point of the
\* check in flight to the next (src/unnamed/part_005 runAllChecks, and the
\* checks' calls of llm.generate)
\* ========================================================================

callsLlmAlways(name, inputOk) == TRUE
\* Whether a check reaches `await llm.generate(...)`: the four checks that
\* are handed the client do, once their input stage has let them through
\* (check-runner.ts 78-83, thread-health.ts 118-147); CK-03 and CK-04 are not
\* given the client.
callsLlm(name, inputOk) == name \in LlmChecks /\ inputOk

\* The status document an earlier run left: one critical result stamped 0.
PriorRunDoc ==
    [runDaemon(1) EXCEPT !["cognitive_checks"] =
        Some(<<FreshResult("cognitive:goal_quality", "critical", 0, Some(1))>>)]

InitSeq ==
    /\ dirExists = TRUE
    /\ file \in {AbsentFile, ObjectFile(PriorRunDoc)}
    /\ tmpFile = AbsentFile
    /\ ParkL1 /\ ParkW /\ ParkHist /\ ParkEsc /\ ParkChk /\ ParkLlm /\ ParkFn /\ ParkOv
    /\ enabled \in SUBSET CheckNames
    /\ ParkRunState
    /\ ParkSeq

SeqFrame == UNCHANGED <<fileVars, l1Vars, wVars, histVars, escVars, chkVars, llmVars,
                        fnVars, ovVars, enabled>>

AtLabel == pc \in {Labels[i] : i \in DOMAIN Labels}
CheckAt(l) == CheckOrder[LabelIndex(l)]

\* runAllChecks up to the first check.
SeqStart ==
    /\ pc = "idle"
    /\ ctx' = NewCtx
    /\ status' = readStatusFile(file)
    /\ invoked' = [n \in CheckNames |-> 0]
    /\ llmCalls' = [n \in CheckNames |-> 0]
    /\ pc' = Labels[1]
    /\ UNCHANGED <<threw, out, phase, inflight, started, recsInput>>
    /\ SeqFrame

\* `if (config.checks.<x>.enabled)` is false: nothing is called.
SeqSkipDisabled ==
    /\ AtLabel /\ phase = "none"
    /\ CheckAt(pc) \notin enabled
    /\ pc' = AfterLabel(pc)
    /\ UNCHANGED <<ctx, status, invoked, threw, out, seqVars>>
    /\ SeqFrame

\* runCheck calls fn(): the check's function starts.
SeqCallCheck ==
    /\ AtLabel /\ phase = "none"
    /\ CheckAt(pc) \in enabled
    /\ invoked' = [invoked EXCEPT ![CheckAt(pc)] = @ + 1]
    /\ inflight' = inflight \cup {CheckAt(pc)}
    /\ started' = Append(started, CheckAt(pc))
    /\ phase' = "input"
    /\ recsInput' = IF CheckAt(pc) = "cognitive:recommendations"
                    THEN Some(ctx.results) ELSE recsInput
    /\ UNCHANGED <<pc, ctx, status, threw, out, llmCalls>>
    /\ SeqFrame

\* `const result = await fn()` settles and runCheck returns: the result is
\* pushed or the failure counted, and runAllChecks moves to the next statement.
SettleCheck(fnOutcome) ==
    /\ ctx' = runCheck(ctx, fnOutcome)
    /\ threw' = IF fnOutcome = None THEN threw \cup {CheckAt(pc)} ELSE threw
    /\ inflight' = inflight \ {CheckAt(pc)}
    /\ phase' = "none"
    /\ pc' = AfterLabel(pc)

\* The check's code up to its first await or to its end: it throws, it returns
\* (a deterministic check's result, or an LLM-backed check's skip result), or
\* it calls llm.generate and is suspended.
SeqInputStage ==
    /\ AtLabel /\ phase = "input"
    /\ LET name == CheckAt(pc) IN
       \E inputOk \in BOOLEAN, throws \in BOOLEAN :
          IF throws
          THEN /\ SettleCheck(None)
               /\ UNCHANGED llmCalls
          ELSE IF callsLlm(name, inputOk)
          THEN /\ llmCalls' = [llmCalls EXCEPT ![name] = @ + 1]
               /\ phase' = "llm"
               /\ UNCHANGED <<pc, ctx, threw, inflight>>
          ELSE /\ SettleCheck(Some(FreshResult(name, "ok", 1, TokensOf(name))))
               /\ UNCHANGED llmCalls
    /\ UNCHANGED <<status, invoked, out, started, recsInput>>
    /\ SeqFrame

\* llm.generate has resolved: the check parses and merges, and returns or
\* throws; it does not call the client again.
SeqLlmResolved ==
    /\ AtLabel /\ phase = "llm"
    /\ \E throws \in BOOLEAN :
          SettleCheck(IF throws THEN None
                      ELSE Some(FreshResult(CheckAt(pc), "ok", 1, TokensOf(CheckAt(pc)))))
    /\ UNCHANGED <<status, invoked, out, started, llmCalls, recsInput>>
    /\ SeqFrame

\* trackConsecutiveCriticals(ctx.results, status) and the return statement.
SeqFinish ==
    /\ pc = "track"
    /\ out' = Some(RunOutput(ctx, status))
    /\ pc' = "done"
    /\ UNCHANGED <<ctx, status, invoked, threw, seqVars>>
    /\ SeqFrame

NextSeq ==
    \/ SeqStart
    \/ SeqSkipDisabled
    \/ SeqCallCheck
    \/ SeqInputStage
    \/ SeqLlmResolved
    \/ SeqFinish

SpecSeq == InitSeq /\ [][NextSeq]_vars

\* ---- claims about one run

RECURSIVE SumCalls(_, _)
SumCalls(calls, names) ==
    IF names = {} THEN 0
    ELSE LET n == CHOOSE x \in names : TRUE
         IN calls[n] + SumCalls(calls, names \ {n})

\* C19: in one run llm.generate is invoked at most four times: at most once
\* each by CK-01, CK-02, CK-05 and CK-06, and never by CK-03 or CK-04.
C19_AtMostFourLlmCalls ==
    pc # "idle" =>
        /\ SumCalls(llmCalls, CheckNames) <= 4
        /\ \A n \in CheckNames : llmCalls[n] <= 1
        /\ llmCalls[CheckOrder[3]] = 0
        /\ llmCalls[CheckOrder[4]] = 0

C19_Witness ==
    /\ pc = "done"
    /\ enabled = CheckNames
    /\ SumCalls(llmCalls, CheckNames) = 4

OrderIndex(name) == CHOOSE i \in DOMAIN CheckOrder : CheckOrder[i] = name
InCheckOrder(names) ==
    \A i, j \in DOMAIN names : i < j => OrderIndex(names[i]) < OrderIndex(names[j])

\* C20: the enabled checks start in the order CK-01 .. CK-06; a check starts
\* only after the one before it has returned or thrown, so at most one check
\* is in flight; the result list keeps that order.
C20_ChecksRunInSequence ==
    /\ InCheckOrder(started)
    /\ \A i \in DOMAIN started : started[i] \in enabled
    /\ Cardinality(inflight) <= 1
    /\ started # <<>> => inflight \subseteq {started[Len(started)]}
    /\ pc # "idle" =>
          /\ InCheckOrder([i \in DOMAIN ctx.results |-> ctx.results[i].check_name])
          /\ \A i \in DOMAIN ctx.results :
                ctx.results[i].check_name \in {started[k] : k \in DOMAIN started} \ inflight
    /\ pc = "done" =>
          /\ {started[k] : k \in DOMAIN started} = enabled
          /\ inflight = {}
          /\ [i \in DOMAIN out[1].results |-> out[1].results[i].check_name]
               = [i \in DOMAIN ctx.results |-> ctx.results[i].check_name]

C20_Witness ==
    /\ pc = "done"
    /\ Len(started) = 6
    /\ Len(out[1].results) >= 3
    /\ threw # {}

\* The checks before CK-06, in order.
PriorChecks == SubSeq(CheckOrder, 1, 5)
IsIn(set) == [n \in CheckNames |-> n \in set]
NamesOf(results) == [i \in DOMAIN results |-> results[i].check_name]

\* C21: when CK-06 is invoked, the result list it receives holds exactly the
\* results CK-01..CK-05 produced in this run, in order: all five when all are
\* enabled, and none from an earlier run.
C21_RecsGetThisRunsResults ==
    recsInput # None =>
        LET r == recsInput[1] IN
        /\ NamesOf(r) = SelectSeq(PriorChecks, LAMBDA n : IsIn(enabled \ threw)[n])
        /\ \A i \in DOMAIN r : r[i].timestamp = 1
        /\ {PriorChecks[i] : i \in 1..5} \subseteq enabled => Len(r) = 5

\* The same without the count: the list is what this run produced, a check
\* that threw having produced nothing.
C21_RecsGetResultsProduced ==
    recsInput # None =>
        LET r == recsInput[1] IN
        /\ NamesOf(r) = SelectSeq(PriorChecks, LAMBDA n : IsIn(enabled \ threw)[n])
        /\ \A i \in DOMAIN r : r[i].timestamp = 1

\* The step at which writeCognitiveResults returns.
WReturnStep == w_pc # "done" /\ w_pc' = "done"

\* C22: writeCognitiveResults never throws: it returns false when the target
\* directory does not exist or when a read, temp-file write or rename step
\* failed, and it returns true only after the rename onto the target path has
\* completed.
C22_WriterFalseOnAnyFailure ==
    [][WReturnStep =>
        /\ ret' \in BOOLEAN
        /\ (~dirExists \/ ioFailed' # {}) => ~ret'
        /\ ret' => (WRenameStep /\ file' = tmpFile /\ file'.form = "object")]_vars

\* C23: when the status write of the refresh command fails, the command's
\* reply reports a failed refresh, not a completed one.  (The first failing
\* write is the step at which allPersisted falls.)
C23_FailedWriteIsReported ==
    [][(clock' = clock + 1 /\ allPersisted /\ ~allPersisted') =>
          reply'[1].headline # "refresh complete"]_vars

\* ========================================================================
\* SpecFn: one call of a function of the core on bounded inputs: the status
\* reader, the writer followed by the reader, and the deterministic checks
\* ========================================================================

MaxElems == 2         \* longest array in a document, longest result list

\* ---- JSON arrays of check entries, as the status reader meets them
\* An element that is no JSON object (null, a string, a number, an array).
NonRecordElem ==
    [isRecord |-> FALSE, check_name |-> Undefined, severity |-> Undefined,
     detail |-> Undefined]
RecordElem(name, sev, detail) ==
    [isRecord |-> TRUE, check_name |-> name, severity |-> sev, detail |-> detail]
RawElems ==
    {NonRecordElem,
     RecordElem(Str("gateway"), Str("warn"), Str("down")),
     RecordElem(Str("disk"), Str("critical"), Str("")),
     RecordElem(Num("7"), Str("fatal"), Undefined)}
NotArray == [isArray |-> FALSE, items |-> <<>>]
JsonArray(items) == [isArray |-> TRUE, items |-> items]
RawArrays == {NotArray} \cup {JsonArray(a) : a \in SeqsUpTo(RawElems, MaxElems)}

\* A status document with the two check arrays under their keys.
StatusObj(dc, cc) ==
    [EmptyObj EXCEPT !["daemon_checks"] = Some(dc), !["cognitive_checks"] = Some(cc)]
StatusFiles ==
    {AbsentFile, UnreadFile, NonObjectFile, MalformedFile(EmptyObj), ObjectFile(EmptyObj)}
    \cup {ObjectFile(StatusObj(dc, cc)) : dc \in RawArrays, cc \in RawArrays}

\* A parse that does not read detail.
parseCheckNoDetail(raw) ==
    IF ~raw.isRecord THEN None
    ELSE Some([check_name |-> IF raw.check_name.type = "string" THEN raw.check_name.v ELSE "",
               severity |-> parseSeverityString(raw.severity),
               detail |-> ""])

\* parseDaemonCheck and parseCognitiveCheck on the three fields they share:
\* null for what is no object, else each field checked on its own.
parseCheck(raw) ==
    IF ~raw.isRecord THEN None
    ELSE Some([check_name |-> IF raw.check_name.type = "string" THEN raw.check_name.v ELSE "",
               severity |-> parseSeverityString(raw.severity),
               detail |-> IF raw.detail.type = "string" THEN raw.detail.v ELSE ""])

\* A reader that gives up the array at its first malformed element.
parseElementsUntilBad(arr) ==
    LET bad == {i \in DOMAIN arr.items : parseCheck(arr.items[i]) = None}
        n == IF bad = {} THEN Len(arr.items)
             ELSE (CHOOSE i \in bad : \A j \in bad : i <= j) - 1
    IN [i \in 1..n |-> parseCheck(arr.items[i])[1]]

\* (raw[key] as unknown[]).map(parse).filter((c) => c !== null)
parseElements(arr) ==
    LET kept == SelectSeq(arr.items, LAMBDA e : parseCheck(e) # None)
    IN [i \in DOMAIN kept |-> parseCheck(kept[i])[1]]

ArrayAt(f, key) == IF f.obj[key] = None THEN NotArray ELSE f.obj[key][1]

\* readStatusFile on a document with check arrays: null when the path has
\* no file, the read or the parse throws (caught at the end of the function)
\* or the value is no object.
readStatusJson(f) ==
    IF f.form # "object" THEN None
    ELSE Some([daemon_checks |->
                   IF ArrayAt(f, "daemon_checks").isArray
                   THEN parseElements(ArrayAt(f, "daemon_checks")) ELSE <<>>,
               cognitive_checks |->
                   IF ArrayAt(f, "cognitive_checks").isArray
                   THEN Some(parseElements(ArrayAt(f, "cognitive_checks"))) ELSE None])

\* ---- the check results handed to the writer
Results ==
    {[check_name |-> "cognitive:goal_quality", severity |-> "warn", detail |-> "2 issues"],
     [check_name |-> "cognitive:thread_health", severity |-> "critical", detail |-> ""],
     [check_name |-> "cognitive:thread_health", severity |-> "ok", detail |-> "fine"]}

\* JSON.stringify of the result list followed by JSON.parse of the text: an
\* array of objects whose three fields are JSON strings.
toJson(results) ==
    JsonArray([i \in DOMAIN results |->
                  RecordElem(Str(results[i].check_name), Str(results[i].severity),
                             Str(results[i].detail))])

\* ---- pipeline correlation (CK-03).  Hours are counted in hundredths.
FourHours == 400
WindowH == 200        \* config.correlationWindowHours, 2 hours
\* Math.round(h * 10) / 10, as a number of tenths
RoundTenths(h) == (h + 5) \div 10

\* gatherSignals: what the NATS CLI, the threads file's mtime, the daemon
\* checks and the clock give.
Signals ==
    [natsTotal : {None, Some(0), Some(50)},
     threadsAgeH : {None} \cup {Some(a) : a \in {100, 300, 400, 403, 405, 500}},
     allOk : BOOLEAN, staleOutputs : {0, 2}, inBusinessHours : BOOLEAN]

Correlation(diagnosis, output_value) ==
    [diagnosis |-> diagnosis, output_value |-> output_value]

addNatsThreadCorrelation(s, windowH) ==
    IF s.natsTotal = None \/ s.natsTotal[1] <= 0 \/ s.threadsAgeH = None THEN <<>>
    ELSE IF s.threadsAgeH[1] > FourHours
    THEN <<Correlation("consumer_disconnected", RoundTenths(s.threadsAgeH[1]))>>
    ELSE IF s.threadsAgeH[1] > windowH
    THEN <<Correlation("consumer_slow", RoundTenths(s.threadsAgeH[1]))>>
    ELSE <<>>

\* buildCorrelations: the three rules in order (lines 92-121).
buildCorrelations(s, windowH) ==
    addNatsThreadCorrelation(s, windowH)
    \o (IF s.allOk /\ s.staleOutputs >= 2
        THEN <<Correlation("pipeline_disconnected", s.staleOutputs)>> ELSE <<>>)
    \o (IF s.natsTotal # None /\ s.natsTotal[1] = 0 /\ s.inBusinessHours
        THEN <<Correlation("event_source_silent", 1)>> ELSE <<>>)

\* computeCorrelationSeverity: output_value > 4 is read on the rounded
\* value, here more than 40 tenths; consumer_slow has no branch.
computeCorrelationSeverity(correlations) ==
    worstSeverity([i \in DOMAIN correlations |->
        LET c == correlations[i] IN
        IF c.diagnosis = "consumer_disconnected" /\ c.output_value > 40 THEN "critical"
        ELSE IF c.diagnosis = "consumer_disconnected" THEN "warn"
        ELSE IF c.diagnosis \in {"pipeline_disconnected", "event_source_silent"} THEN "warn"
        ELSE "ok"])

runPipelineCorrelationCheck(s, windowH) ==
    [severity |-> computeCorrelationSeverity(buildCorrelations(s, windowH)),
     correlations |-> buildCorrelations(s, windowH)]

\* ---- anomaly detection (CK-04)
MaxSnaps == 2         \* snapshots in a history, for the growth check
MaxSteps == 5         \* steps between recorded values, for the trend check
WeekDays == 7

\* History snapshots, oldest first as the history file keeps them: the age
\* of each in days and the <label>_dir_mb it recorded, if any.
Snapshots == [daysAgo : {1, 8, 10}, dirMb : {None, Some(10), Some(20)}]
Histories ==
    {h \in SeqsUpTo(Snapshots, MaxSnaps) :
        \A i, j \in DOMAIN h : i < j => h[i].daysAgo >= h[j].daysAgo}

Anomaly(severity, baseline) == [severity |-> severity, baseline |-> baseline]

\* checkGrowthAnomaly: snapshots.find takes the first snapshot older than a
\* week; the anomalies it pushes.
checkGrowthAnomaly(currentMb, snapshots) ==
    LET older == {i \in DOMAIN snapshots : snapshots[i].daysAgo > WeekDays} IN
    IF older = {} THEN <<>>
    ELSE LET snap == snapshots[CHOOSE i \in older : \A j \in older : i <= j] IN
         IF snap.dirMb = None THEN <<>>
         ELSE IF snap.dirMb[1] <= 0 THEN <<>>
         ELSE IF currentMb > 5 * snap.dirMb[1] THEN <<Anomaly("critical", snap.dirMb[1])>>
         ELSE IF currentMb > 2 * snap.dirMb[1] THEN <<Anomaly("warn", snap.dirMb[1])>>
         ELSE <<>>

\* The recorded values of one tracked metric, oldest first, built from the
\* steps between them.
RECURSIVE ValuesOf(_)
ValuesOf(steps) ==
    IF steps = <<>> THEN <<10>>
    ELSE LET v == ValuesOf(SubSeq(steps, 1, Len(steps) - 1))
         IN Append(v, v[Len(v)] + steps[Len(steps)])
MetricValues == {<<>>} \cup {ValuesOf(st) : st \in SeqsUpTo({-1, 0, 1}, MaxSteps)}

\* computeConsecutiveTrend's loop from index i down, with its two counters.
RECURSIVE trendLoop(_, _, _, _)
trendLoop(values, i, up, down) ==
    IF i <= 1 THEN [up |-> up, down |-> down]
    ELSE IF values[i] > values[i - 1] THEN trendLoop(values, i - 1, up + 1, 0)
    ELSE IF values[i] < values[i - 1] THEN trendLoop(values, i - 1, 0, down + 1)
    ELSE [up |-> up, down |-> down]

\* detectTrends and computeConsecutiveTrend: the number of consecutive
\* decreases reported as shrinking, 0 otherwise.
detectShrinking(values) ==
    IF Len(values) < 3 THEN 0
    ELSE LET t == trendLoop(values, Len(values), 0, 0)
         IN IF t.down >= 3 THEN t.down ELSE 0

\* checkMetricTrends for one tracked metric.
checkMetricTrends(values) ==
    IF detectShrinking(values) < 3 THEN <<>>
    ELSE IF detectShrinking(values) >= 5 THEN <<Anomaly("critical", 0)>>
    ELSE <<Anomaly("warn", 0)>>

\* ---- timestamp and duration_ms of a check's result
MaxElapsed == 2       \* clock readings between a check's start and its return

\* The return statements of a check: the skip result of its input stage, the
\* fail-open results after an LLM answer without content or without JSON, and
\* the result of a completed check.  CK-03 and CK-04 have the last only, CK-06
\* has no skip.
ReturnPaths(check) ==
    IF check \notin LlmChecks THEN {"completed"}
    ELSE IF check = "cognitive:recommendations"
    THEN {"llm_unavailable", "parse_failure", "completed"}
    ELSE {"skip", "llm_unavailable", "parse_failure", "completed"}

\* A result that takes its timestamp from the check's entry in the status
\* document.
stampedFromStatus(check, path, prior, startMs, endMs) ==
    [check_name |-> check, path |-> path, timestamp |-> prior,
     duration_ms |-> endMs - startMs]

\* `const startMs = Date.now(); const timestamp = new Date().toISOString()`
\* at the check's first statement, and `timestamp, duration_ms: Date.now() -
\* startMs` in every return statement.
stampedResult(check, path, prior, startMs, endMs) ==
    [check_name |-> check, path |-> path, timestamp |-> startMs,
     duration_ms |-> endMs - startMs]

\* One call of a check in a run that began at runStart, after a run whose
\* results were stamped prior: the clock reads startMs when the check is
\* entered and endMs when it returns.
TimingInputs ==
    {[fn |-> "stampedResult", check |-> c, path |-> p, prior |-> 0, runStart |-> 1,
      startMs |-> a, endMs |-> a + e] :
        c \in CheckNames, p \in {"skip", "llm_unavailable", "parse_failure", "completed"},
        a \in 1..2, e \in 0..MaxElapsed}

\* ---- the health summary.  A string is the sequence of its characters.
MaxIssues == 2        \* daemon checks in the status document

\* String.prototype.substring(a, b) for a <= b: arguments below 0 count as 0,
\* arguments above the length as the length.
Clamp(n, len) == IF n < 0 THEN 0 ELSE IF n > len THEN len ELSE n
substring(str, a, b) == SubSeq(str, Clamp(a, Len(str)) + 1, Clamp(b, Len(str)))

Ellipsis == <<".", ".", ".">>
UpperCase(sev) ==
    IF sev = "critical" THEN <<"C", "R", "I", "T", "I", "C", "A", "L">>
    ELSE IF sev = "warn" THEN <<"W", "A", "R", "N">>
    ELSE <<"O", "K">>
LowerCase(sev) ==
    IF sev = "critical" THEN <<"c", "r", "i", "t", "i", "c", "a", "l">>
    ELSE IF sev = "warn" THEN <<"w", "a", "r", "n">>
    ELSE <<"o", "k">>
Decimal(n) == <<<<"0", "1", "2", "3", "4", "5", "6", "7", "8", "9">>[n + 1]>>

\* Checks of a status document as the summary reads them: the name with its
\* "daemon:" / "output_freshness:" / "cognitive:" prefix already cut off.
SummaryChecks == [base : {<<"f">>}, severity : {"ok", "warn", "critical"}]
SummaryStatuses ==
    [daemon_checks : SeqsUpTo(SummaryChecks, MaxIssues),
     cognitive_checks : SeqsUpTo([base : {<<"g", "q">>}, severity : {"ok", "warn"}], 1)]

\* collectIssueNames: "<name> (<severity>)" for each check that is not ok.
RECURSIVE issuesOf(_)
issuesOf(checks) ==
    IF checks = <<>> THEN <<>>
    ELSE (IF Head(checks).severity # "ok"
          THEN <<Head(checks).base \o <<" ", "(">> \o LowerCase(Head(checks).severity)
                    \o <<")">> >>
          ELSE <<>>) \o issuesOf(Tail(checks))
collectIssueNames(st) == issuesOf(st.daemon_checks) \o issuesOf(st.cognitive_checks)

computeStatusSeverity(st) ==
    LET all == {st.daemon_checks[i].severity : i \in DOMAIN st.daemon_checks}
               \cup {st.cognitive_checks[i].severity : i \in DOMAIN st.cognitive_checks}
    IN IF "critical" \in all THEN "critical" ELSE IF "warn" \in all THEN "warn" ELSE "ok"

\* issues.join(", ")
RECURSIVE join(_)
join(parts) ==
    IF parts = <<>> THEN <<>>
    ELSE IF Len(parts) = 1 THEN parts[1]
    ELSE parts[1] \o <<",", " ">> \o join(Tail(parts))

\* `${overall.toUpperCase()} — ${issues.length} issue(s): ${issues.join(", ")}`
summaryText(st) ==
    UpperCase(computeStatusSeverity(st)) \o <<" ", "-", " ">>
        \o Decimal(Len(collectIssueNames(st)))
        \o <<" ", "i", "s", "s", "u", "e", "(", "s", ")", ":", " ">>
        \o join(collectIssueNames(st))

buildHealthSummary(st, maxLength) ==
    IF collectIssueNames(st) = <<>> THEN <<>>
    ELSE IF Len(summaryText(st)) > maxLength
    THEN substring(summaryText(st), 0, maxLength - 3) \o Ellipsis
    ELSE summaryText(st)

MaxArgs == 3          \* arguments in a call of worstSeverity

FnInputs ==
    {[fn |-> "readStatusFile", results |-> <<>>]}
    \cup {[fn |-> "writeThenRead", results |-> r] : r \in SeqsUpTo(Results, MaxElems)}
    \cup {[fn |-> "runPipelineCorrelationCheck", signals |-> sg] : sg \in Signals}
    \cup {[fn |-> "checkGrowthAnomaly", currentMb |-> c, snapshots |-> h] :
             c \in {20, 21, 50, 51, 101}, h \in Histories}
    \cup {[fn |-> "checkMetricTrends", values |-> v] : v \in MetricValues}
    \cup {t \in TimingInputs : t.path \in ReturnPaths(t.check)}
    \cup {[fn |-> "worstSeverity", args |-> a] : a \in SeqsUpTo(Severity, MaxArgs)}
    \cup {[fn |-> "buildHealthSummary", status |-> st, maxLength |-> n] :
             st \in SummaryStatuses, n \in {0, 2, 3, 4, 27, 30, 60}}

\* What the path holds before the call: anything for the reader; for the
\* writer nothing, garbage, or an earlier document with its own entries.
FilesFor(in) ==
    IF in.fn = "readStatusFile" THEN StatusFiles
    ELSE IF in.fn # "writeThenRead" THEN {AbsentFile}
    ELSE {AbsentFile, MalformedFile(EmptyObj),
          ObjectFile(StatusObj(JsonArray(<<RecordElem(Str("disk"), Str("warn"), Str("90%"))>>),
                               JsonArray(<<RecordElem(Str("cognitive:recommendations"),
                                                      Str("ok"), Str("old"))>>)))}

InitFn ==
    /\ dirExists = TRUE
    /\ tmpFile = AbsentFile
    /\ ParkL1 /\ ParkW /\ ParkHist /\ ParkEsc /\ ParkRun /\ ParkChk /\ ParkLlm /\ ParkSeq
    /\ ParkOv
    /\ fnIn \in FnInputs
    /\ file \in FilesFor(fnIn)
    /\ fnOut = None

FnFrame == UNCHANGED <<dirExists, tmpFile, l1Vars, wVars, histVars, escVars, runVars,
                       chkVars, llmVars, seqVars, ovVars, fnIn>>

\* readStatusFile(path)
ReadStatus ==
    /\ fnIn.fn = "readStatusFile" /\ fnOut = None
    /\ fnOut' = Some([wrote |-> FALSE, status |-> readStatusJson(file)])
    /\ file' = file
    /\ FnFrame

\* writeCognitiveResults(path, {cognitive_checks: results, ...}) with nothing
\* else touching the path, then readStatusFile(path).  The write fails when
\* an I/O call throws.
WriteThenRead ==
    /\ fnIn.fn = "writeThenRead" /\ fnOut = None
    /\ \E okIo \in BOOLEAN :
          LET p == [cognitive_checks |-> toJson(fnIn.results), cognitive_meta |-> 1,
                    sitrep_collectors |-> None]
          IN /\ file' = IF okIo THEN ObjectFile(Merge(ReadExisting(file), p)) ELSE file
             /\ fnOut' = Some([wrote |-> okIo, status |-> readStatusJson(file')])
    /\ FnFrame

\* runPipelineCorrelationCheck(config, deps, logger)
RunPipelineCorrelationCheck ==
    /\ fnIn.fn = "runPipelineCorrelationCheck" /\ fnOut = None
    /\ fnOut' = Some(runPipelineCorrelationCheck(fnIn.signals, WindowH))
    /\ file' = file
    /\ FnFrame

\* checkGrowthAnomaly(label, currentMb, history, anomalies)
CheckGrowthAnomaly ==
    /\ fnIn.fn = "checkGrowthAnomaly" /\ fnOut = None
    /\ fnOut' = Some(checkGrowthAnomaly(fnIn.currentMb, fnIn.snapshots))
    /\ file' = file
    /\ FnFrame

\* checkMetricTrends(history, anomalies), one tracked metric
CheckMetricTrends ==
    /\ fnIn.fn = "checkMetricTrends" /\ fnOut = None
    /\ fnOut' = Some(checkMetricTrends(fnIn.values))
    /\ file' = file
    /\ FnFrame

\* A check runs from its first statement to one of its return statements.
ReturnStamped ==
    /\ fnIn.fn = "stampedResult" /\ fnOut = None
    /\ fnOut' = Some(stampedResult(fnIn.check, fnIn.path, fnIn.prior,
                                   fnIn.startMs, fnIn.endMs))
    /\ file' = file
    /\ FnFrame

\* buildHealthSummary(status, config.healthInjection.maxLength)
BuildHealthSummary ==
    /\ fnIn.fn = "buildHealthSummary" /\ fnOut = None
    /\ fnOut' = Some(buildHealthSummary(fnIn.status, fnIn.maxLength))
    /\ file' = file
    /\ FnFrame

\* worstSeverity(...severities)
WorstSeverity ==
    /\ fnIn.fn = "worstSeverity" /\ fnOut = None
    /\ fnOut' = Some(worstSeverity(fnIn.args))
    /\ file' = file
    /\ FnFrame

NextFn ==
    \/ WorstSeverity
    \/ BuildHealthSummary
    \/ ReturnStamped
    \/ ReadStatus
    \/ WriteThenRead
    \/ RunPipelineCorrelationCheck
    \/ CheckGrowthAnomaly
    \/ CheckMetricTrends

SpecFn == InitFn /\ [][NextFn]_vars

\* ---- claims about the status reader

RecordPositions(arr) == {i \in DOMAIN arr.items : arr.items[i].isRecord}
\* out keeps, in order, one entry per element of arr that is an object, the
\* well-typed fields of the element unchanged.
KeepsWellFormed(arr, entries) ==
    /\ Len(entries) = Cardinality(RecordPositions(arr))
    /\ \A i \in RecordPositions(arr) :
          LET k == Cardinality({j \in RecordPositions(arr) : j <= i})
              e == arr.items[i]
          IN /\ e.check_name.type = "string" => entries[k].check_name = e.check_name.v
             /\ (e.severity.type = "string" /\ e.severity.v \in Severity)
                    => entries[k].severity = e.severity.v
             /\ e.detail.type = "string" => entries[k].detail = e.detail.v

\* C24: readStatusFile returns null when the file is absent, unparsable or
\* not a JSON object; otherwise it returns a structure in which the malformed
\* elements of daemon_checks and cognitive_checks are dropped and every
\* well-formed element is kept.
C24_ReaderDropsOnlyMalformed ==
    (fnOut # None /\ fnIn.fn = "readStatusFile") =>
        IF file.form # "object" THEN fnOut[1].status = None
        ELSE /\ fnOut[1].status # None
             /\ KeepsWellFormed(ArrayAt(file, "daemon_checks"),
                                fnOut[1].status[1].daemon_checks)
             /\ ArrayAt(file, "cognitive_checks").isArray =>
                   /\ fnOut[1].status[1].cognitive_checks # None
                   /\ KeepsWellFormed(ArrayAt(file, "cognitive_checks"),
                                      fnOut[1].status[1].cognitive_checks[1])

C24_Witness ==
    /\ fnOut # None /\ fnIn.fn = "readStatusFile"
    /\ file.form = "object"
    /\ ArrayAt(file, "cognitive_checks").isArray
    /\ Len(ArrayAt(file, "cognitive_checks").items) = 2
    /\ ~ArrayAt(file, "cognitive_checks").items[1].isRecord
    /\ Len(fnOut[1].status[1].cognitive_checks[1]) = 1
    /\ fnOut[1].status[1].cognitive_checks[1][1].check_name = "gateway"

\* C25: for every list of check results, writing it with the status writer
\* (returning true) and then reading the document with the status reader
\* yields cognitive_checks of the same length and order, with the same
\* check_name, severity and detail for each entry.
C25_WriteReadRoundTrip ==
    (fnOut # None /\ fnIn.fn = "writeThenRead" /\ fnOut[1].wrote) =>
        /\ fnOut[1].status # None
        /\ fnOut[1].status[1].cognitive_checks = Some(fnIn.results)

C25_Witness ==
    /\ fnOut # None /\ fnIn.fn = "writeThenRead" /\ fnOut[1].wrote
    /\ Len(fnIn.results) = 2
    /\ fnIn.results[1].severity = "critical"
    /\ fnIn.results[2].detail = "2 issues"
    /\ fnOut[1].status[1].cognitive_checks[1][2].detail = "2 issues"

\* ---- claims about single checks

PipelineRan == fnOut # None /\ fnIn.fn = "runPipelineCorrelationCheck"
Diagnoses(correlations) == {correlations[i].diagnosis : i \in DOMAIN correlations}

\* C26: whenever the event count is greater than 0 and the threads file is
\* more than 4 hours old, by any margin, the result holds a
\* consumer_disconnected correlation and its severity is critical.
C26_StaleConsumerIsCritical ==
    (/\ PipelineRan
     /\ fnIn.signals.natsTotal # None /\ fnIn.signals.threadsAgeH # None
     /\ fnIn.signals.natsTotal[1] > 0 /\ fnIn.signals.threadsAgeH[1] > FourHours)
    => /\ "consumer_disconnected" \in Diagnoses(fnOut[1].correlations)
       /\ fnOut[1].severity = "critical"

\* C27: the severity is the worst contribution of the triggered rules,
\* consumer_disconnected contributing critical and consumer_slow,
\* pipeline_disconnected and event_source_silent each warn; it is ok exactly
\* when no correlation was triggered.
C27_SeverityIsWorstContribution ==
    PipelineRan =>
        LET d == Diagnoses(fnOut[1].correlations) IN
        /\ fnOut[1].severity =
              (IF "consumer_disconnected" \in d THEN "critical"
               ELSE IF d # {} THEN "warn" ELSE "ok")
        /\ fnOut[1].severity = "ok" <=> fnOut[1].correlations = <<>>

\* The baseline of the growth check as the claim has it: the value recorded
\* by the most recent snapshot that is older than 7 days and has the key.
NearestBaseline(snapshots) ==
    LET cand == {i \in DOMAIN snapshots :
                    snapshots[i].daysAgo > WeekDays /\ snapshots[i].dirMb # None}
    IN IF cand = {} THEN None
       ELSE snapshots[CHOOSE i \in cand : \A j \in cand : j <= i].dirMb

\* C28: the growth check takes as baseline the value in the nearest snapshot
\* older than 7 days that recorded the key, wherever it sits and whatever
\* other snapshots lack the key, and emits critical iff current > 5 x
\* baseline, warn iff 2 x baseline < current <= 5 x baseline, nothing
\* otherwise.
C28_GrowthAgainstNearestBaseline ==
    (fnOut # None /\ fnIn.fn = "checkGrowthAnomaly") =>
        LET b == NearestBaseline(fnIn.snapshots)
            c == fnIn.currentMb
        IN fnOut[1] = (IF b = None THEN <<>>
                       ELSE IF c > 5 * b[1] THEN <<Anomaly("critical", b[1])>>
                       ELSE IF c > 2 * b[1] THEN <<Anomaly("warn", b[1])>>
                       ELSE <<>>)

\* The number of consecutive strictly-decreasing steps counted from the most
\* recent value backward, ending at the first step that is no strict decrease.
RECURSIVE DecreasesFromEnd(_)
DecreasesFromEnd(values) ==
    IF Len(values) < 2 THEN 0
    ELSE IF values[Len(values)] < values[Len(values) - 1]
    THEN 1 + DecreasesFromEnd(SubSeq(values, 1, Len(values) - 1))
    ELSE 0

\* C29: with k that number, the check emits a critical anomaly iff k >= 5, a
\* warn anomaly iff 3 <= k < 5, and no anomaly for the metric iff k < 3.
C29_TrendCountsFromMostRecent ==
    (fnOut # None /\ fnIn.fn = "checkMetricTrends") =>
        LET k == DecreasesFromEnd(fnIn.values)
        IN fnOut[1] = (IF k >= 5 THEN <<Anomaly("critical", 0)>>
                       ELSE IF k >= 3 THEN <<Anomaly("warn", 0)>>
                       ELSE <<>>)

\* C30: when the bootstrap manifest is absent or unreadable, the bootstrap
\* integrity check ends with a result of severity warn, not ok, and
\* llm.generate has not been called.
C30_MissingBootstrapWarns ==
    (/\ chkResult # None
     /\ chkInput.check = "cognitive:bootstrap_integrity"
     /\ readTextInput(chkInput.data) = None)
    => /\ ~chkResult[1].threw
       /\ chkResult[1].result.severity = "warn"
       /\ chkInput.llm = None

\* C30 witness: the check ran on a missing manifest and returned the warn
\* result without findings.
C30_Witness ==
    /\ chkResult # None
    /\ chkInput.check = "cognitive:bootstrap_integrity"
    /\ readTextInput(chkInput.data) = None
    /\ chkResult[1] = Returned(CheckResult(chkInput.check, "warn", None, None))

OpenAndOld(t) ==
    /\ t.status = "open"
    /\ t.last_activity # None
    /\ Now - t.last_activity[1] > StaleDays * 24

\* The thread-health check ended on its fail-open path, so that the findings
\* it returned are those of its pre-filter.
ThreadPreFilterShown ==
    /\ chkResult # None /\ ~chkResult[1].threw
    /\ chkInput.check = "cognitive:thread_health"
    /\ chkInput.llm # None
    /\ chkInput.llm[1].content \in {"null", "unparsable"}

\* C32: the thread-health pre-filter flags a thread as stale if and only if
\* its status is "open" and its last_activity is more than staleDays days
\* old: the stale findings are those threads, in order, and a thread with
\* another status is never among them.
C32_StaleIffOpenAndOld ==
    ThreadPreFilterShown =>
        LET flagged == SelectSeq(extractThreads(chkInput.data), OpenAndOld)
        IN chkResult[1].result.findings =
              Some([i \in DOMAIN flagged |-> [id |-> flagged[i].id, issue |-> "stale"]])

\* C32 witness: an open thread one hour past the limit was flagged.
C32_Witness ==
    /\ ThreadPreFilterShown
    /\ chkInput.data.shape = "array"
    /\ \E i \in DOMAIN chkInput.data.items :
          /\ OpenAndOld(chkInput.data.items[i])
          /\ Now - chkInput.data.items[i].last_activity[1] = (StaleDays * 24) + 1
    /\ chkResult[1].result.findings # Some(<<>>)
    /\ chkResult[1].result.findings[1][1].issue = "stale"

C34_SummaryWithinMaxLength ==
    (fnOut # None /\ fnIn.fn = "buildHealthSummary") =>
        /\ Len(fnOut[1]) <= fnIn.maxLength
        /\ (collectIssueNames(fnIn.status) # <<>>
               /\ Len(summaryText(fnIn.status)) > fnIn.maxLength)
           => /\ Len(fnOut[1]) >= 3
              /\ SubSeq(fnOut[1], Len(fnOut[1]) - 2, Len(fnOut[1])) = Ellipsis

\* The arguments with those at positions i and j exchanged.
Swapped(args, i, j) ==
    [k \in DOMAIN args |-> IF k = i THEN args[j] ELSE IF k = j THEN args[i] ELSE args[k]]

\* C35: worstSeverity returns the maximum of its arguments under ok < warn <
\* critical: it is ok without arguments and its argument with one; the result
\* does not depend on the order of the arguments (commutative) nor on how
\* they are grouped (associative), and repeating an argument changes nothing
\* (idempotent).
C35_WorstSeverityIsMaximum ==
    (fnOut # None /\ fnIn.fn = "worstSeverity") =>
        LET a == fnIn.args
            r == fnOut[1]
        IN /\ a = <<>> => r = "ok"
           /\ Len(a) = 1 => r = a[1]
           /\ a # <<>> => /\ \E i \in DOMAIN a : r = a[i]
                          /\ \A i \in DOMAIN a : order(a[i]) <= order(r)
           /\ \A i, j \in DOMAIN a : worstSeverity(Swapped(a, i, j)) = r
           /\ Len(a) >= 2 =>
                 /\ worstSeverity(<<worstSeverity(SubSeq(a, 1, Len(a) - 1)), a[Len(a)]>>) = r
                 /\ worstSeverity(<<a[1], worstSeverity(Tail(a))>>) = r
           /\ worstSeverity(a \o a) = r
           /\ a # <<>> => worstSeverity(<<r, r>>) = r

\* C35 witness: three different arguments with the worst of them in the
\* middle.
C35_Witness ==
    /\ fnOut # None /\ fnIn.fn = "worstSeverity"
    /\ fnIn.args = <<"warn", "critical", "ok">>
    /\ fnOut[1] = "critical"

\* ---- claims about the two writers of the status path

\* The step in which the daemon's writeFileSync puts its text at the path.
L1WriteStep == l1pc = "opened" /\ l1pc' = "idle" /\ ~l1fdStale

\* C36: a status write by the L1 daemon leaves the L2-owned region untouched:
\* when the status writer's last call persisted its payload and is not
\* running, the document the daemon's write leaves still holds that
\* cognitive_checks and cognitive_meta.
C36_L1WriteKeepsL2Region ==
    [][(L1WriteStep /\ w_pc = "done" /\ ret) =>
          /\ file'.form = "object"
          /\ file'.obj["cognitive_checks"] = Some(payload.cognitive_checks)
          /\ file'.obj["cognitive_meta"] = Some(payload.cognitive_meta)]_vars

(***************************************************************************)
(* SpecTicks: persisted orchestrator runs with ticks of the L1 daemon      *)
(* between them, on the same status path.                                  *)
(***************************************************************************)
\* One check is enabled and the directory of the status path exists.
InitTicks ==
    /\ InitEsc
    /\ dirExists
    /\ Cardinality(enabled) = 1

\* daemon main, tick(): runDaemon(cfg), then writeStatus(status, statusPath),
\* while no orchestrator run is under way.
DaemonTick ==
    /\ l1gen < MaxRuns
    /\ l1gen' = l1gen + 1
    /\ dirExists' = TRUE
    /\ file' = ObjectFile(runDaemon(l1gen + 1))
    /\ UNCHANGED <<clientVars, tmpFile, l1pc, l1fdStale, wVars, histVars, escVars, runVars,
                   chkVars>>

NextTicks ==
    \/ Refresh
    \/ DaemonTick

SpecEscFair == InitTicks /\ [][NextEsc]_vars /\ WF_vars(Refresh)

\* The scheduler keeps starting runs (the periodic timer of the plugin).
SpecTicks == InitTicks /\ [][NextTicks]_vars /\ WF_vars(Refresh)

\* The check has been critical in every run so far and every run was
\* persisted.
CriticalInEveryRun(n) == n \in enabled /\ allPersisted /\ streak[n] = clock

Escalated(n) ==
    \E i \in DOMAIN lastResults :
        /\ lastResults[i].check_name = n
        /\ lastResults[i].escalation_needed = Some(TRUE)

C37_EscalatesWithoutDaemonWrites ==
    dirExists => <>(\A n \in enabled : Escalated(n) \/ ~CriticalInEveryRun(n))

(***************************************************************************)
(* SpecOverlap: orchestrator runs started by the timer and by the refresh  *)
(* command on the same status path.  A run reads the status document at    *)
(* its start and writes at its end; between the two it is suspended in its *)
(* checks, and another run can start or finish.                            *)
(***************************************************************************)
MaxOverlap == 2       \* orchestrator runs in a behaviour
OvRuns == 1..MaxOverlap
OvCheck == "cognitive:goal_quality"

\* The status document an earlier run left: the check's entry with its
\* severity and count, stamped 0.
OvPriorDoc(sev, count) ==
    [runDaemon(1) EXCEPT !["cognitive_checks"] =
        Some(<<[FreshResult(OvCheck, sev, 0, Some(1)) EXCEPT
                   !.consecutive_critical_count = Some(count),
                   !.first_critical_at = IF count > 0 THEN Some(0) ELSE None]>>)]

InitOverlap ==
    /\ dirExists = TRUE
    /\ file \in {AbsentFile, ObjectFile(runDaemon(1)), ObjectFile(OvPriorDoc("ok", 0)),
                 ObjectFile(OvPriorDoc("critical", 1)), ObjectFile(OvPriorDoc("critical", 2))}
    /\ tmpFile = AbsentFile
    /\ ParkL1 /\ ParkW /\ ParkHist /\ ParkEsc /\ ParkChk /\ ParkLlm /\ ParkSeq /\ ParkFn
    /\ enabled = {OvCheck}
    /\ ParkRunState
    /\ ovStatus = [r \in OvRuns |-> None]
    /\ ovWrote = <<>>

OvFrame == UNCHANGED <<dirExists, tmpFile, l1Vars, wVars, histVars, escVars, runVars, chkVars,
                       llmVars, seqVars, fnVars>>

HasWritten(r) == \E i \in DOMAIN ovWrote : ovWrote[i].run = r

\* runAllChecks of run r up to its first check: readStatusFile(statusPath).
OvStart(r) ==
    /\ ovStatus[r] = None
    /\ ovStatus' = [ovStatus EXCEPT ![r] = Some(readStatusFile(file))]
    /\ UNCHANGED <<file, ovWrote>>
    /\ OvFrame

\* What run r hands to the writer when its check returned sev.
OvResults(r, sev) ==
    runAllChecks(enabled, ovStatus[r][1], [n \in enabled |-> Some(FreshResult(n, sev, r, None))])

\* The rest of run r: its check resolves, trackConsecutiveCriticals works on
\* the status read at the start, and handleRefresh calls the writer.
OvFinish(r) ==
    /\ ovStatus[r] # None /\ ~HasWritten(r)
    /\ \E sev \in Severity, okIo \in BOOLEAN :
          LET out1 == OvResults(r, sev)
              p == [cognitive_checks |-> out1.results, cognitive_meta |-> out1.meta,
                    sitrep_collectors |-> None]
          IN /\ file' = IF okIo THEN ObjectFile(Merge(ReadExisting(file), p)) ELSE file
             /\ ovWrote' = Append(ovWrote, [run |-> r, sev |-> sev, ok |-> okIo])
    /\ UNCHANGED ovStatus
    /\ OvFrame

NextOverlap ==
    \/ \E r \in OvRuns : OvStart(r)
    \/ \E r \in OvRuns : OvFinish(r)

SpecOverlap == InitOverlap /\ [][NextOverlap]_vars

\* The count the document read by a run held for the check, 0 without entry.
PrevCount(st) ==
    LET prev == FindCheck(st.cognitive_checks[1], OvCheck)
    IN IF prev = None THEN 0 ELSE OrElse(prev[1].consecutive_critical_count, 0)

\* The run read a status document that has cognitive_checks.
ReadTracked(r) ==
    /\ ovStatus[r] # None /\ ovStatus[r][1] # None
    /\ ovStatus[r][1][1].cognitive_checks # None

\* The count persisted for the check.
PersistedCount == file.obj["cognitive_checks"][1][1].consecutive_critical_count

\* Two runs have written, both with success and a critical result, after
\* both had read the same document: the second read came before the first
\* write.
TwoOverlapped ==
    /\ Len(ovWrote) = 2
    /\ \A i \in 1..2 : ovWrote[i].ok /\ ovWrote[i].sev = "critical"
    /\ ReadTracked(ovWrote[1].run) /\ ReadTracked(ovWrote[2].run)
    /\ ovStatus[ovWrote[1].run] = ovStatus[ovWrote[2].run]

\* Two runs have written, both with success and a critical result, the
\* second having read the document the first wrote.
TwoInTurn ==
    /\ Len(ovWrote) = 2
    /\ \A i \in 1..2 : ovWrote[i].ok /\ ovWrote[i].sev = "critical"
    /\ ReadTracked(ovWrote[1].run) /\ ReadTracked(ovWrote[2].run)
    /\ LET prev == FindCheck(ovStatus[ovWrote[2].run][1][1].cognitive_checks[1], OvCheck)
       IN prev # None /\ prev[1].timestamp = ovWrote[1].run

\* C38 (as stated): if two runs overlap and the check was critical in both,
\* then once both have written the persisted consecutive_critical_count
\* counts each of the two runs once.
C38_OverlapCountsBothRuns ==
    TwoOverlapped =>
        PersistedCount = Some(PrevCount(ovStatus[ovWrote[1].run][1][1]) + 2)

\* The last run whose write succeeded.
LastWriter ==
    LET oks == {i \in DOMAIN ovWrote : ovWrote[i].ok}
    IN ovWrote[CHOOSE i \in oks : \A j \in oks : j <= i]

\* C38 (amended): the persisted count is the one the run that wrote last
\* computed from the document it read at its start: that document's count
\* plus one when its result is critical, 0 otherwise.  Two overlapping runs
\* that are both critical therefore leave the count one above the count both
\* read; two runs one after the other leave it two above.
C38_CountIsLastWritersReadPlusOne ==
    /\ (\E i \in DOMAIN ovWrote : ovWrote[i].ok) /\ ReadTracked(LastWriter.run)
          => PersistedCount =
                 Some(IF LastWriter.sev = "critical"
                      THEN PrevCount(ovStatus[LastWriter.run][1][1]) + 1 ELSE 0)
    /\ TwoOverlapped =>
          PersistedCount = Some(PrevCount(ovStatus[ovWrote[1].run][1][1]) + 1)
    /\ TwoInTurn =>
          PersistedCount = Some(PrevCount(ovStatus[ovWrote[1].run][1][1]) + 2)

\* C38 witness: both runs read the document with count 1, both were critical
\* and both wrote: the count persisted is 2.
C38_Witness ==
    /\ TwoOverlapped
    /\ PrevCount(ovStatus[ovWrote[1].run][1][1]) = 1
    /\ PersistedCount = Some(2)

\* C39: whenever writeCognitiveResults returns false, the document at the
\* status path is what it was before the call as far as the writer goes: no
\* step of a call changes the path except the rename with which the call
\* returns true, and the step that returns false leaves it as it is.
C39_FailedWriteLeavesTarget ==
    [][/\ (w_pc # w_pc') => (file' = file \/ (WRenameStep /\ ret'))
       /\ (WReturnStep /\ ~ret') => file' = file]_vars

\* C39 witness: the rename failed, the writer returned false, and the path
\* still holds the document the writer had read, next to the temp file.
C39_Witness ==
    /\ w_pc = "done" /\ ~ret
    /\ ioFailed = {"rename"}
    /\ file.form = "object"
    /\ file = readContent
    /\ tmpFile.form = "object"
    /\ tmpFile # file


\* ---- the events of one provider request (SpecLlm)

\* C40: each provider attempt has exactly one outcome, the one passed to
\* resolve by the first of the response-end, error and timeout handlers to
\* run; an event delivered to the request afterwards changes neither that
\* outcome nor what generate returned, and sends no further request.
C40_FirstEventFixesOutcome ==
    [][/\ prim # None => prim' = prim
       /\ fb # None => fb' = fb
       /\ response # None => response' = response
       /\ late' # late =>
             /\ requests' = requests
             /\ genPc' = genPc
             /\ answeredBy' = answeredBy]_vars

\* The primary request timed out and was destroyed, the "error" this raised
\* reached its handler afterwards, and the call had sent its one fallback.
C40_Witness ==
    /\ late = <<[request |-> 1, event |-> "error"]>>
    /\ prim = Some(Failure("Timeout"))
    /\ Len(requests) = 2
    /\ genPc = "done"

====
